---- MODULE Spec2Model ----
(***************************************************************************)
(* Model of the Krishana chat / voice client (src/App.tsx) and of its      *)
(* persistence service (src/services/db.ts), with the history loop of its  *)
(* text service (src/unnamed/part_003).                                    *)
(*                                                                         *)
(* The specifications share the variables:                                 *)
(*   Spec          the voice-session life cycle: startVoiceSession,        *)
(*                 stopVoiceSession, getUserMedia, the live connection and *)
(*                 the microphone frames;                                  *)
(*   SpecPlayback  the onmessage audio pipeline of an established voice    *)
(*                 session: scheduling, interruption, stop;                *)
(*   SpecText      handleSendText, createNewSession and the messages and   *)
(*                 sessions tables; SpecTextFair adds that awaits settle;  *)
(*   SpecTurns     the onmessage transcription buffers and turnComplete;   *)
(*   SpecLogo      handleLogoUrlUpdate, handleLogoUpload, db.saveBranding; *)
(*   SpecCatalog   filteredProperties under the search and filter inputs;  *)
(*   SpecLead      handleLeadSubmit and db.saveCustomerLead;               *)
(*   SpecDb        db.saveMessage called by itself;                        *)
(*   SpecStartup   the init effect, refreshData and what they set off;     *)
(*                 SpecStartupFair adds that its promises settle;          *)
(*   SpecSendForm  the send form submitted in any state, two sends;        *)
(*   SpecHistory   the history sendMessageStream gives to the provider;    *)
(*   SpecDelete    db.deleteSession beside db.saveMessage, step by step.   *)
(***************************************************************************)
EXTENDS Integers, Sequences, FiniteSets, TLC

\* ------------------------------------------------------------------ bounds

MaxCalls == 2
MaxFrames == 2
MaxMsgs == 2
MaxDur == 1
MaxTime == 1
MaxSessions == 2
MaxSends == 1
MaxSubmits == 2
MaxHistory == 3
MaxChunks == 2
MaxTurnMsgs == 3
MaxLogoOps == 2
MaxProps == 2
MaxShown == 6
MaxLeadOps == 2
MaxDbCalls == 3

\* the value of a ref that holds nothing (useRef(null))
Null == 0

Calls == 1..MaxCalls

Max(a, b) == IF a >= b THEN a ELSE b

VARIABLES
    \* React state and refs of App
    isVoiceActive,        \* useState(false)
    errorMessage,         \* useState(null)
    audioContextInRef,    \* the call whose input context is held, or Null
    audioContextOutRef,   \* the call whose output context is held, or Null
    mediaStreamRef,       \* the call whose microphone stream is held, or Null
    sessionPromiseRef,    \* the call whose live-session promise is held, or Null
    nextStartTimeRef,
    activeSourcesRef,
    \* the startVoiceSession calls, by call id
    startPc,              \* "idle" | "awaitMedia" | "done"
    \* browser and SDK objects the calls created (object c belongs to call c)
    session,              \* "none" | "connecting" | "open" | "errored" | "closed"
    closeRequested,       \* sessions with a p.then(s => s.close()) registered
    closedIn,             \* input contexts on which close() was called
    closedOut,            \* output contexts on which close() was called
    stoppedStreams,       \* streams whose tracks were all stopped
    processors,           \* script processors: <<session, input context, stream>>
    pendingSends,         \* per session: sessionPromise.then callbacks not yet run
    sentFrames,           \* per session: sendRealtimeInput calls made
    framesCaptured,
    \* the output side
    currentTime,          \* the output context's clock
    handlers,             \* the onmessage invocations, by arrival number
    nMsgs,
    started,              \* source.start(when) calls, in call order
    stoppedSources,       \* sources on which stop() was called
    interruptsHandled,    \* how many times the interrupted block has run
    \* chat state of App
    currentSessionId,     \* useState(null)
    sessions,             \* the session list, newest first (ids)
    messages,             \* the displayed messages
    view,                 \* "properties" | "chat"
    inputText,
    isTyping,
    \* the hosted database
    dbSessions,           \* sessions table: a set of rows [id, updated_at]
    dbMessages,           \* messages table: a set of rows
    \* environment
    now,                  \* Date.now(): a clock that every reading advances
    nextUuid,             \* crypto.randomUUID(): message ids handed out so far
    nextSession,          \* crypto.randomUUID(): session ids handed out so far
    \* the handleSendText call in flight
    send,
    received,             \* the chunks the stream of the send has yielded
    nSends,
    \* the closure of each startVoiceSession call
    capturedSessionId,    \* the currentSessionId its callbacks see
    \* the voice transcriptions
    currentInputTranscription,   \* useRef('')
    currentOutputTranscription,  \* useRef('')
    turns,                \* the onmessage invocations that carry text, by arrival
    nTurnMsgs,
    nFragments,           \* transcription fragments delivered so far
    \* which session each message was made for: <<message id, session id>>
    owner,
    \* branding
    appIcon,              \* useState(FALLBACK_ICON_URL)
    projectLogo,          \* useState(FALLBACK_ICON_URL)
    isUpdatingLogo,       \* useState(false)
    dbBranding,           \* branding table: key -> value, NoValue when no row
    logoOps,              \* the logo update attempts, by attempt number
    nLogoOps,
    \* the property catalog
    properties,           \* useState([]), loaded by refreshData
    searchQuery,          \* useState('')
    typeFilter,           \* useState('All Types')
    cityFilter,           \* useState('All Cities')
    \* the lead form
    showLeadModal,        \* useState(false)
    leadForm,             \* useState({full_name: '', email: '', preferred_contact})
    dbCustomers,          \* customers table: the rows inserted, in order
    leadOps,              \* the handleLeadSubmit calls, by call number
    nLeadOps,
    \* the db.saveMessage calls made by direct callers, in call order
    dbCalls,
    \* sendMessageStream by itself
    history,              \* its history argument
    chat,                 \* what ai.chats.create was given
    \* db.deleteSession and db.saveMessage running side by side
    del,                  \* the deleteSession call
    save,                 \* the saveMessage call
    \* start-up
    dbSetupRequired,      \* useState(false)
    isSyncing,            \* useState(false)
    startup,              \* where the init effect is, and what it has set off
    dbProperties          \* properties table: the rows, ordered by country

voiceVars == <<isVoiceActive, errorMessage, audioContextInRef, audioContextOutRef,
               mediaStreamRef, sessionPromiseRef, startPc, session, closeRequested,
               closedIn, closedOut, stoppedStreams, processors, pendingSends,
               sentFrames, framesCaptured>>

playVars == <<nextStartTimeRef, activeSourcesRef, currentTime, handlers, nMsgs,
              started, stoppedSources, interruptsHandled>>

textVars == <<currentSessionId, sessions, messages, view, inputText, isTyping,
              dbSessions, dbMessages, now, nextUuid, nextSession, send, received,
              nSends>>

turnVars == <<currentInputTranscription, currentOutputTranscription, turns, nTurnMsgs,
              nFragments>>

logoVars == <<appIcon, projectLogo, isUpdatingLogo, dbBranding, logoOps, nLogoOps>>

catalogVars == <<properties, searchQuery, typeFilter, cityFilter>>

leadVars == <<showLeadModal, leadForm, dbCustomers, leadOps, nLeadOps>>

startupVars == <<dbSetupRequired, isSyncing, startup, dbProperties>>

callVars == <<dbCalls, history, chat, del, save>>

\* callVars without the variable named
callButChat == <<dbCalls, history, del, save>>
callButDb == <<dbCalls, history, chat>>

glueVars == <<turnVars, logoVars, catalogVars, leadVars, callVars, startupVars>>

\* the groups of glueVars other than the one named
glueButTurn == <<logoVars, catalogVars, leadVars, callVars, startupVars>>
glueButLogo == <<turnVars, catalogVars, leadVars, callVars, startupVars>>
glueButCatalog == <<turnVars, logoVars, leadVars, callVars, startupVars>>
glueButLead == <<turnVars, logoVars, catalogVars, callVars, startupVars>>
glueButDbCalls == <<turnVars, logoVars, catalogVars, leadVars, history, chat, del, save,
                    startupVars>>

\* voiceVars without errorMessage
voiceButError == <<isVoiceActive, audioContextInRef, audioContextOutRef, mediaStreamRef,
                   sessionPromiseRef, startPc, session, closeRequested, closedIn,
                   closedOut, stoppedStreams, processors, pendingSends, sentFrames,
                   framesCaptured>>

restVars == <<capturedSessionId, owner, glueVars>>

vars == <<voiceVars, playVars, textVars, restVars>>

\* ------------------------------------------------------- stopVoiceSession

\* The part of the state stopVoiceSession touches.
VoiceState ==
    [isVoiceActive |-> isVoiceActive,
     mediaStreamRef |-> mediaStreamRef,
     stoppedStreams |-> stoppedStreams,
     audioContextInRef |-> audioContextInRef,
     closedIn |-> closedIn,
     audioContextOutRef |-> audioContextOutRef,
     closedOut |-> closedOut,
     activeSourcesRef |-> activeSourcesRef,
     stoppedSources |-> stoppedSources,
     sessionPromiseRef |-> sessionPromiseRef,
     closeRequested |-> closeRequested]

\* stopVoiceSession without clearing sessionPromiseRef
StopResultKeepsSession ==
    [isVoiceActive |-> FALSE,
     mediaStreamRef |-> Null,
     stoppedStreams |-> IF mediaStreamRef # Null
                        THEN stoppedStreams \cup {mediaStreamRef} ELSE stoppedStreams,
     audioContextInRef |-> Null,
     closedIn |-> IF audioContextInRef # Null
                  THEN closedIn \cup {audioContextInRef} ELSE closedIn,
     audioContextOutRef |-> Null,
     closedOut |-> IF audioContextOutRef # Null
                   THEN closedOut \cup {audioContextOutRef} ELSE closedOut,
     activeSourcesRef |-> {},
     stoppedSources |-> stoppedSources \cup activeSourcesRef,
     sessionPromiseRef |-> sessionPromiseRef,
     closeRequested |-> IF sessionPromiseRef # Null
                        THEN closeRequested \cup {sessionPromiseRef} ELSE closeRequested]

\* The state stopVoiceSession leaves, from the current one.
StopResult ==
    [isVoiceActive |-> FALSE,
     mediaStreamRef |-> Null,
     stoppedStreams |-> IF mediaStreamRef # Null
                        THEN stoppedStreams \cup {mediaStreamRef} ELSE stoppedStreams,
     audioContextInRef |-> Null,
     closedIn |-> IF audioContextInRef # Null
                  THEN closedIn \cup {audioContextInRef} ELSE closedIn,
     audioContextOutRef |-> Null,
     closedOut |-> IF audioContextOutRef # Null
                   THEN closedOut \cup {audioContextOutRef} ELSE closedOut,
     activeSourcesRef |-> {},
     stoppedSources |-> stoppedSources \cup activeSourcesRef,
     sessionPromiseRef |-> Null,
     closeRequested |-> IF sessionPromiseRef # Null
                        THEN closeRequested \cup {sessionPromiseRef} ELSE closeRequested]

stopVoiceSession ==
    /\ isVoiceActive' = StopResult.isVoiceActive
    /\ mediaStreamRef' = StopResult.mediaStreamRef
    /\ stoppedStreams' = StopResult.stoppedStreams
    /\ audioContextInRef' = StopResult.audioContextInRef
    /\ closedIn' = StopResult.closedIn
    /\ audioContextOutRef' = StopResult.audioContextOutRef
    /\ closedOut' = StopResult.closedOut
    /\ activeSourcesRef' = StopResult.activeSourcesRef
    /\ stoppedSources' = StopResult.stoppedSources
    /\ sessionPromiseRef' = StopResult.sessionPromiseRef
    /\ closeRequested' = StopResult.closeRequested

\* what a step that only runs stopVoiceSession leaves alone
StopFrame ==
    UNCHANGED <<processors, pendingSends, sentFrames, framesCaptured,
                nextStartTimeRef, currentTime, handlers, nMsgs, started,
                interruptsHandled, textVars, restVars>>

\* The "Customer Call" and "Strategic Chat" buttons call stopVoiceSession while
\* isVoiceActive; the effect clean-up calls it unconditionally.
StopVoiceSession ==
    /\ stopVoiceSession
    /\ StopFrame
    /\ UNCHANGED <<errorMessage, startPc, session>>

\* ------------------------------------------------------ startVoiceSession

\* The call that the next startVoiceSession makes.
NextCall ==
    IF \E c \in Calls : startPc[c] = "idle"
    THEN CHOOSE c \in Calls : startPc[c] = "idle" /\ \A d \in Calls : d < c => startPc[d] # "idle"
    ELSE Null

\* startVoiceSession up to its await of getUserMedia
StartVoiceSession ==
    /\ NextCall # Null
    /\ IF isVoiceActive
       THEN UNCHANGED vars
       ELSE /\ isVoiceActive' = TRUE
            /\ audioContextInRef' = NextCall
            /\ audioContextOutRef' = NextCall
            /\ startPc' = [startPc EXCEPT ![NextCall] = "awaitMedia"]
            /\ UNCHANGED <<errorMessage, mediaStreamRef, sessionPromiseRef, session,
                           closeRequested, closedIn, closedOut, stoppedStreams,
                           processors, pendingSends, sentFrames, framesCaptured>>
            /\ capturedSessionId' = [capturedSessionId EXCEPT ![NextCall] = currentSessionId]
            /\ UNCHANGED playVars
            /\ UNCHANGED <<textVars, owner, glueVars>>

\* getUserMedia resolves: the rest of the try block
GetUserMediaResolved(c) ==
    /\ startPc[c] = "awaitMedia"
    /\ mediaStreamRef' = c
    /\ session' = [session EXCEPT ![c] = "connecting"]
    /\ sessionPromiseRef' = c
    /\ startPc' = [startPc EXCEPT ![c] = "done"]
    /\ UNCHANGED <<isVoiceActive, errorMessage, audioContextInRef, audioContextOutRef,
                   closeRequested, closedIn, closedOut, stoppedStreams, processors,
                   pendingSends, sentFrames, framesCaptured>>
    /\ UNCHANGED playVars
    /\ UNCHANGED <<textVars, restVars>>

\* getUserMedia rejects: the catch block
GetUserMediaRejected(c) ==
    /\ startPc[c] = "awaitMedia"
    /\ errorMessage' = "Microphone access denied or audio failed."
    /\ stopVoiceSession
    /\ startPc' = [startPc EXCEPT ![c] = "done"]
    /\ StopFrame
    /\ UNCHANGED session

\* ------------------------------------------------- live-session callbacks

\* the connection opens: the onopen callback
OnOpen(s) ==
    /\ session[s] = "connecting"
    /\ session' = [session EXCEPT ![s] = "open"]
    /\ processors' = IF audioContextInRef = Null \/ mediaStreamRef = Null
                     THEN processors
                     ELSE processors \cup {<<s, audioContextInRef, mediaStreamRef>>}
    /\ UNCHANGED <<isVoiceActive, errorMessage, audioContextInRef, audioContextOutRef,
                   mediaStreamRef, sessionPromiseRef, startPc, closeRequested, closedIn,
                   closedOut, stoppedStreams, pendingSends, sentFrames, framesCaptured>>
    /\ UNCHANGED playVars
    /\ UNCHANGED <<textVars, restVars>>

\* the onerror callback
OnError(s) ==
    /\ session[s] \in {"connecting", "open"}
    /\ session' = [session EXCEPT ![s] = "errored"]
    /\ errorMessage' = "Voice protocol interrupted."
    /\ stopVoiceSession
    /\ StopFrame
    /\ UNCHANGED startPc

\* the connection closes (by the server, or after a requested close): onclose
OnClose(s) ==
    /\ session[s] \in {"open", "errored"}
    /\ session' = [session EXCEPT ![s] = "closed"]
    /\ stopVoiceSession
    /\ StopFrame
    /\ UNCHANGED <<errorMessage, startPc>>

\* ------------------------------------------------------ microphone frames

\* scriptProcessor.onaudioprocess: registers sessionPromise.then(send)
OnAudioProcess(p) ==
    /\ p \in processors
    /\ p[2] \notin closedIn
    /\ framesCaptured < MaxFrames
    /\ framesCaptured' = framesCaptured + 1
    /\ pendingSends' = [pendingSends EXCEPT ![p[1]] = @ + 1]
    /\ UNCHANGED <<isVoiceActive, errorMessage, audioContextInRef, audioContextOutRef,
                   mediaStreamRef, sessionPromiseRef, startPc, session, closeRequested,
                   closedIn, closedOut, stoppedStreams, processors, sentFrames>>
    /\ UNCHANGED playVars
    /\ UNCHANGED <<textVars, restVars>>

\* the then-callback sending the frame whatever sessionPromiseRef holds
SendFrameUnguarded(s) ==
    /\ pendingSends[s] > 0
    /\ session[s] \in {"open", "errored", "closed"}
    /\ pendingSends' = [pendingSends EXCEPT ![s] = @ - 1]
    /\ sentFrames' = [sentFrames EXCEPT ![s] = @ + 1]
    /\ UNCHANGED <<isVoiceActive, errorMessage, audioContextInRef, audioContextOutRef,
                   mediaStreamRef, sessionPromiseRef, startPc, session, closeRequested,
                   closedIn, closedOut, stoppedStreams, processors, framesCaptured>>
    /\ UNCHANGED playVars
    /\ UNCHANGED <<textVars, restVars>>

\* the then-callback of onaudioprocess, run once the session promise is resolved
SendFrame(s) ==
    /\ pendingSends[s] > 0
    /\ session[s] \in {"open", "errored", "closed"}
    /\ pendingSends' = [pendingSends EXCEPT ![s] = @ - 1]
    /\ sentFrames' = IF sessionPromiseRef = s
                     THEN [sentFrames EXCEPT ![s] = @ + 1]
                     ELSE sentFrames
    /\ UNCHANGED <<isVoiceActive, errorMessage, audioContextInRef, audioContextOutRef,
                   mediaStreamRef, sessionPromiseRef, startPc, session, closeRequested,
                   closedIn, closedOut, stoppedStreams, processors, framesCaptured>>
    /\ UNCHANGED playVars
    /\ UNCHANGED <<textVars, restVars>>

\* ------------------------------------------------------------ chat: data

\* Texts are sequences of characters.
InputTexts == {<<" ">>, <<"a", " ">>}
\* the text of the n-th chunk a stream yields
Chunk(n) == IF n % 2 = 1 THEN <<"x">> ELSE <<"y">>

\* Role
USER == "user"
MODEL == "model"

NoMessage == [id |-> Null, role |-> USER, text |-> <<>>, timestamp |-> Null]

\* String.prototype.trim
RECURSIVE TrimStart(_)
TrimStart(t) ==
    IF t = <<>> THEN t ELSE IF Head(t) = " " THEN TrimStart(Tail(t)) ELSE t

RECURSIVE TrimEnd(_)
TrimEnd(t) ==
    IF t = <<>> THEN t
    ELSE IF t[Len(t)] = " " THEN TrimEnd(SubSeq(t, 1, Len(t) - 1)) ELSE t

Trim(t) == TrimEnd(TrimStart(t))

\* the idle handleSendText call
SendIdle ==
    [pc |-> "idle", sid |-> Null, user |-> NoMessage, modelId |-> Null,
     modelText |-> <<>>, modelTimestamp |-> Null, result |-> "none"]

\* The useState initial values of the chat, before any session is loaded, and an
\* empty database.
InitChat ==
    /\ currentSessionId = Null
    /\ sessions = <<>>
    /\ messages = <<>>
    /\ view = "properties"
    /\ inputText = <<>>
    /\ isTyping = FALSE
    /\ dbSessions = {}
    /\ dbMessages = {}
    /\ now = 1
    /\ nextUuid = 0
    /\ nextSession = 0
    /\ send = SendIdle
    /\ received = <<>>
    /\ nSends = 0

\* an onmessage invocation that has not happened yet
NoTurn ==
    [pc |-> "none", sid |-> Null, turnComplete |-> FALSE, userText |-> <<>>,
     modelText |-> <<>>, userMsg |-> NoMessage, modelMsg |-> NoMessage]

\* The useRef initial values of the transcriptions; no message was made yet.
InitTurn ==
    /\ currentInputTranscription = <<>>
    /\ currentOutputTranscription = <<>>
    /\ turns = [h \in 1..MaxTurnMsgs |-> NoTurn]
    /\ nTurnMsgs = 0
    /\ nFragments = 0
    /\ owner = {}

FALLBACK_ICON_URL == <<"k">>

BrandingKeys == {"project_logo", "app_icon"}

\* the value db.getBranding has for a key without a row: null, which the init
\* effect treats as it treats ''
NoValue == <<>>

\* a logo update attempt that has not happened yet
NoLogoOp ==
    [pc |-> "none", kind |-> "none", value |-> <<>>,
     saves |-> [key \in BrandingKeys |-> "none"]]

\* The useState initial values of the branding, and an empty branding table.
InitLogo ==
    /\ appIcon = FALLBACK_ICON_URL
    /\ projectLogo = FALLBACK_ICON_URL
    /\ isUpdatingLogo = FALSE
    /\ dbBranding = [key \in BrandingKeys |-> NoValue]
    /\ logoOps = [h \in 1..MaxLogoOps |-> NoLogoOp]
    /\ nLogoOps = 0

ALL_TYPES == <<"All Types">>
ALL_CITIES == <<"All Cities">>

\* The useState initial values of the catalog.
InitCatalog ==
    /\ properties = <<>>
    /\ searchQuery = <<>>
    /\ typeFilter = ALL_TYPES
    /\ cityFilter = ALL_CITIES

\* a handleLeadSubmit call that has not happened yet
NoLeadOp == [pc |-> "none", form |-> <<>>, summary |-> <<>>]

\* The useState initial values of the lead form, and an empty customers table.
InitLead ==
    /\ showLeadModal = FALSE
    /\ leadForm = [full_name |-> <<>>, email |-> <<>>, preferred_contact |-> "email"]
    /\ dbCustomers = <<>>
    /\ leadOps = [h \in 1..MaxLeadOps |-> NoLeadOp]
    /\ nLeadOps = 0

\* the init effect before it has run
StartupIdle ==
    [pc |-> "init", select |-> Null, create |-> FALSE, missing |-> FALSE,
     loaded |-> FALSE, init |-> "pending", probe |-> [message |-> <<>>, code |-> "none"]]

\* The init effect has run to its end, on a database without properties.
InitStarted ==
    /\ dbSetupRequired = FALSE
    /\ isSyncing = FALSE
    /\ startup = [StartupIdle EXCEPT !.pc = "done"]
    /\ dbProperties = <<>>

\* sendMessageStream has not been called; no deleteSession or saveMessage call runs
NoChat == [created |-> FALSE, history |-> <<>>]
DelIdle == [pc |-> "idle", id |-> Null, calls |-> 0]
SaveIdle == [pc |-> "idle", sessionId |-> Null, message |-> NoMessage, calls |-> 0]

InitCalls ==
    /\ dbCalls = <<>>
    /\ history = <<>>
    /\ chat = NoChat
    /\ del = DelIdle
    /\ save = SaveIdle

InitGlue ==
    /\ InitTurn
    /\ InitLogo
    /\ InitCatalog
    /\ InitLead
    /\ InitCalls
    /\ InitStarted

\* ----------------------------------------------- the life-cycle specification

InitPlay ==
    /\ nextStartTimeRef = 0
    /\ activeSourcesRef = {}
    /\ currentTime = 0
    /\ handlers = [h \in 1..MaxMsgs |-> [pc |-> "none", dur |-> 0, interrupted |-> FALSE,
                                         recvTime |-> 0, recvEpoch |-> 0]]
    /\ nMsgs = 0
    /\ started = <<>>
    /\ stoppedSources = {}
    /\ interruptsHandled = 0

InitVoice ==
    /\ isVoiceActive = FALSE
    /\ errorMessage = "null"
    /\ audioContextInRef = Null
    /\ audioContextOutRef = Null
    /\ mediaStreamRef = Null
    /\ sessionPromiseRef = Null
    /\ startPc = [c \in Calls |-> "idle"]
    /\ session = [c \in Calls |-> "none"]
    /\ closeRequested = {}
    /\ closedIn = {}
    /\ closedOut = {}
    /\ stoppedStreams = {}
    /\ processors = {}
    /\ pendingSends = [c \in Calls |-> 0]
    /\ sentFrames = [c \in Calls |-> 0]
    /\ framesCaptured = 0

Init ==
    /\ InitVoice
    /\ InitPlay
    /\ InitChat
    /\ InitGlue
    /\ capturedSessionId = [c \in Calls |-> Null]

Next ==
    \/ StartVoiceSession
    \/ StopVoiceSession
    \/ \E c \in Calls : GetUserMediaResolved(c)
    \/ \E c \in Calls : GetUserMediaRejected(c)
    \/ \E s \in Calls : OnOpen(s)
    \/ \E s \in Calls : OnError(s)
    \/ \E s \in Calls : OnClose(s)
    \/ \E p \in processors : OnAudioProcess(p)
    \/ \E s \in Calls : SendFrame(s)

Spec == Init /\ [][Next]_vars

\* ------------------------------------------------------ onmessage: audio

\* decodeAudioData(decode(base64Audio), ctx, 24000, 1): asynchronous; the message's
\* audio is carried as the duration of the buffer it decodes to.
decodeAudioData(data) == [duration |-> data]

\* the interrupted block leaving nextStartTimeRef as it is
InterruptedBlockNoReset(active) ==
    /\ stoppedSources' = stoppedSources \cup active
    /\ activeSourcesRef' = {}
    /\ UNCHANGED nextStartTimeRef
    /\ interruptsHandled' = interruptsHandled + 1

\* if (message.serverContent?.interrupted) { ... }, run with `active` in the set
InterruptedBlock(active) ==
    /\ stoppedSources' = stoppedSources \cup active
    /\ activeSourcesRef' = {}
    /\ nextStartTimeRef' = 0
    /\ interruptsHandled' = interruptsHandled + 1

\* onmessage from its start to the await of decodeAudioData, or to its end when
\* the message has no audio or no output context is held
OnMessage(data, interrupted) ==
    /\ nMsgs < MaxMsgs
    /\ \E s \in Calls : session[s] = "open"
    /\ nMsgs' = nMsgs + 1
    /\ IF data > 0 /\ audioContextOutRef # Null
       THEN /\ nextStartTimeRef' = Max(nextStartTimeRef, currentTime)
            /\ handlers' = [handlers EXCEPT ![nMsgs + 1] =
                              [pc |-> "decode", dur |-> data, interrupted |-> interrupted,
                               recvTime |-> currentTime, recvEpoch |-> interruptsHandled]]
            /\ UNCHANGED <<activeSourcesRef, stoppedSources, interruptsHandled>>
       ELSE /\ handlers' = [handlers EXCEPT ![nMsgs + 1] =
                              [pc |-> "done", dur |-> data, interrupted |-> interrupted,
                               recvTime |-> currentTime, recvEpoch |-> interruptsHandled]]
            /\ IF interrupted
               THEN InterruptedBlock(activeSourcesRef)
               ELSE UNCHANGED <<activeSourcesRef, stoppedSources, nextStartTimeRef,
                                interruptsHandled>>
    /\ UNCHANGED <<currentTime, started>>
    /\ UNCHANGED voiceVars
    /\ UNCHANGED <<textVars, restVars>>

\* onmessage after decodeAudioData resolved: start the source, then the
\* interrupted block
DecodeDone(h) ==
    /\ handlers[h].pc = "decode"
    /\ handlers' = [handlers EXCEPT ![h].pc = "done"]
    /\ started' = Append(started,
                         [id |-> h, when |-> nextStartTimeRef,
                          dur |-> decodeAudioData(handlers[h].dur).duration,
                          recvTime |-> handlers[h].recvTime,
                          recvEpoch |-> handlers[h].recvEpoch,
                          startEpoch |-> interruptsHandled])
    /\ IF handlers[h].interrupted
       THEN InterruptedBlock(activeSourcesRef \cup {h})
       ELSE /\ nextStartTimeRef' = nextStartTimeRef + decodeAudioData(handlers[h].dur).duration
            /\ activeSourcesRef' = activeSourcesRef \cup {h}
            /\ UNCHANGED <<stoppedSources, interruptsHandled>>
    /\ UNCHANGED <<currentTime, nMsgs>>
    /\ UNCHANGED voiceVars
    /\ UNCHANGED <<textVars, restVars>>

\* source.onended, once the source has played to its end
SourceEnded(h) ==
    /\ h \in activeSourcesRef
    /\ \E i \in DOMAIN started :
          started[i].id = h /\ currentTime >= started[i].when + started[i].dur
    /\ activeSourcesRef' = activeSourcesRef \ {h}
    /\ UNCHANGED <<nextStartTimeRef, currentTime, handlers, nMsgs, started,
                   stoppedSources, interruptsHandled>>
    /\ UNCHANGED voiceVars
    /\ UNCHANGED <<textVars, restVars>>

\* the output context's clock advances
Tick ==
    /\ currentTime < MaxTime
    /\ currentTime' = currentTime + 1
    /\ UNCHANGED <<nextStartTimeRef, activeSourcesRef, handlers, nMsgs, started,
                   stoppedSources, interruptsHandled>>
    /\ UNCHANGED voiceVars
    /\ UNCHANGED <<textVars, restVars>>

\* ------------------------------------------------ the playback specification

\* An established voice session: call 1 got its stream, connected and opened.
InitVoiceOpen ==
    /\ isVoiceActive = TRUE
    /\ errorMessage = "null"
    /\ audioContextInRef = 1
    /\ audioContextOutRef = 1
    /\ mediaStreamRef = 1
    /\ sessionPromiseRef = 1
    /\ startPc = [c \in Calls |-> IF c = 1 THEN "done" ELSE "idle"]
    /\ session = [c \in Calls |-> IF c = 1 THEN "open" ELSE "none"]
    /\ closeRequested = {}
    /\ closedIn = {}
    /\ closedOut = {}
    /\ stoppedStreams = {}
    /\ processors = {<<1, 1, 1>>}
    /\ pendingSends = [c \in Calls |-> 0]
    /\ sentFrames = [c \in Calls |-> 0]
    /\ framesCaptured = 0

\* The session was started before any chat session was current.
InitPlayback ==
    /\ InitVoiceOpen
    /\ InitPlay
    /\ InitChat
    /\ InitGlue
    /\ capturedSessionId = [c \in Calls |-> Null]

NextPlayback ==
    \/ \E data \in 0..MaxDur, interrupted \in BOOLEAN : OnMessage(data, interrupted)
    \/ \E h \in 1..MaxMsgs : DecodeDone(h)
    \/ \E h \in 1..MaxMsgs : SourceEnded(h)
    \/ Tick
    \/ StopVoiceSession
    \/ \E s \in Calls : OnClose(s)

SpecPlayback == InitPlayback /\ [][NextPlayback]_vars

\* ----------------------------------------------- claims on SpecPlayback

\* a step in which stopVoiceSession has run to its end
StopReturns ==
    \/ StopVoiceSession
    \/ \E c \in Calls : GetUserMediaRejected(c)
    \/ \E s \in Calls : OnError(s)
    \/ \E s \in Calls : OnClose(s)

\* C2: when stopVoiceSession returns, isVoiceActive is false, the held stream's
\* tracks are stopped and mediaStreamRef is null, both context refs are null,
\* the active-source set is empty, sessionPromiseRef is null with a close
\* requested on the session it held, and a further stopVoiceSession would
\* change nothing.
C2_StopReleasesEverything ==
    [][StopReturns =>
          /\ isVoiceActive' = FALSE
          /\ (mediaStreamRef # Null => mediaStreamRef \in stoppedStreams')
          /\ mediaStreamRef' = Null
          /\ audioContextInRef' = Null
          /\ audioContextOutRef' = Null
          /\ activeSourcesRef' = {}
          /\ (sessionPromiseRef # Null => sessionPromiseRef \in closeRequested')
          /\ sessionPromiseRef' = Null
          /\ (StopResult = VoiceState)']_vars

\* C2 witness: stopVoiceSession has released a stream, stopped a playing source
\* and requested the close of a session.
C2_Witness ==
    /\ ~isVoiceActive
    /\ interruptsHandled = 0
    /\ stoppedStreams # {}
    /\ stoppedSources # {}
    /\ closeRequested # {}
    /\ sessionPromiseRef = Null

\* C3: the step that runs the interrupted block stops every source of the
\* active set (the one the same handler just started included), empties the set
\* and resets the next-start time to 0.
C3_InterruptedStopsPlayback ==
    [][interruptsHandled' # interruptsHandled =>
          /\ activeSourcesRef \subseteq stoppedSources'
          /\ \A i \in DOMAIN started' :
                i \notin DOMAIN started => started'[i].id \in stoppedSources'
          /\ activeSourcesRef' = {}
          /\ nextStartTimeRef' = 0]_vars

\* C3 witness: an interrupted message stopped a source that was playing, after
\* chunks had pushed the next-start time forward.
C3_Witness ==
    /\ isVoiceActive
    /\ interruptsHandled > 0
    /\ stoppedSources # {}
    /\ nextStartTimeRef = 0
    /\ \E i \in DOMAIN started : started[i].when + started[i].dur > 0

\* C4: no chunk received before an interruption was handled is started after it.
C4_NoStaleChunkAfterInterrupt ==
    \A i \in DOMAIN started : started[i].recvEpoch = started[i].startEpoch

\* C5: between interruptions, chunks are started in the order received, each at
\* a time not earlier than the end of the chunk scheduled before it and not
\* earlier than the output context's time when it was received.
C5_InOrderNoOverlap ==
    \A i \in DOMAIN started :
        started[i].recvEpoch = started[i].startEpoch =>
            /\ started[i].when >= started[i].recvTime
            /\ \A j \in DOMAIN started :
                  (j < i /\ started[j].startEpoch = started[i].startEpoch
                         /\ started[j].recvEpoch = started[j].startEpoch) =>
                      /\ started[j].id < started[i].id
                      /\ started[i].when >= started[j].when + started[j].dur

\* ------------------------------------------------------ claims on Spec

\* C1: whenever isVoiceActive is false and no startVoiceSession call is still
\* running, no microphone stream, no audio context and no live-session handle
\* is held.
C1_IdleHoldsNothing ==
    (~isVoiceActive /\ \A c \in Calls : startPc[c] # "awaitMedia")
        => /\ mediaStreamRef = Null
           /\ audioContextInRef = Null
           /\ audioContextOutRef = Null
           /\ sessionPromiseRef = Null

\* C6: a frame is sent to a session only in a step that starts with
\* sessionPromiseRef holding that session, and never to a session on which
\* stopVoiceSession has run.
C6_FramesOnlyToCurrentSession ==
    [][\A s \in Calls : sentFrames'[s] # sentFrames[s]
            => (sessionPromiseRef = s /\ s \notin closeRequested)]_vars

\* C6 witness: a session that was sent a frame while current, was stopped, and
\* still has a frame whose send is pending.
C6_Witness ==
    \E s \in Calls : s \in closeRequested /\ sentFrames[s] > 0 /\ pendingSends[s] > 0

\* C7: at most one live session is connected (open and not asked to close) at
\* any time.
C7_AtMostOneLiveSession ==
    Cardinality({s \in Calls : session[s] = "open" /\ s \notin closeRequested}) <= 1

\* --------------------------------------------------------- chat: database

\* supabase upsert: the row replaces the row of the same id
Upsert(rows, row) == {r \in rows : r.id # row.id} \cup {row}

\* db.saveMessage, the messages table: the upsert, whose error is only logged
saveMessageRows(sessionId, message, mError) ==
    IF mError
    THEN dbMessages
    ELSE Upsert(dbMessages,
                [id |-> message.id, session_id |-> sessionId, role |-> message.role,
                 text |-> message.text, timestamp |-> message.timestamp])

\* db.saveMessage, the sessions table: update({updated_at}).eq('id', sessionId)
saveMessageSessions(sessionId, updatedAt) ==
    {IF r.id = sessionId THEN [r EXCEPT !.updated_at = updatedAt] ELSE r : r \in dbSessions}

\* .order('timestamp', { ascending: true })
RECURSIVE OrderByTimestamp(_)
OrderByTimestamp(rows) ==
    IF rows = {} THEN <<>>
    ELSE LET first == CHOOSE r \in rows : \A q \in rows : r.timestamp <= q.timestamp
         IN  <<first>> \o OrderByTimestamp(rows \ {first})

\* db.getSession(id).messages, when both selects succeed
getSessionMessages(id) ==
    LET rows == OrderByTimestamp({r \in dbMessages : r.session_id = id})
    IN  [i \in 1..Len(rows) |->
            [id |-> rows[i].id, role |-> rows[i].role, text |-> rows[i].text,
             timestamp |-> rows[i].timestamp]]

\* ---------------------------------------------------- chat: handleSendText

\* the input's onChange, and handleConsultProperty
TypeInput(t) ==
    /\ t # inputText
    /\ inputText' = t
    /\ UNCHANGED <<currentSessionId, sessions, messages, view, isTyping, dbSessions,
                   dbMessages, now, nextUuid, nextSession, send, received, nSends>>
    /\ UNCHANGED <<voiceVars, playVars, restVars>>

\* handleSendText past its guard, up to its await of
\* db.saveMessage(currentSessionId, userMsg)
handleSendTextBody ==
    LET userMsg == [id |-> nextUuid + 1, role |-> USER, text |-> Trim(inputText),
                    timestamp |-> now]
    IN  /\ messages' = Append(messages, userMsg)
        /\ inputText' = <<>>
        /\ isTyping' = TRUE
        /\ send' = [pc |-> "saveUser", sid |-> currentSessionId, user |-> userMsg,
                    modelId |-> Null, modelText |-> <<>>,
                    modelTimestamp |-> Null, result |-> "none"]
        /\ received' = <<>>
        /\ nextUuid' = nextUuid + 1
        /\ now' = now + 1
        /\ nSends' = nSends + 1
        /\ owner' = owner \cup {<<nextUuid + 1, currentSessionId>>}
        /\ UNCHANGED <<currentSessionId, sessions, view, dbSessions, dbMessages,
                       nextSession>>
        /\ UNCHANGED <<voiceVars, playVars, capturedSessionId, glueVars>>

\* handleSendText whose guard does not look at isTyping
handleSendTextIgnoringTyping ==
    IF Trim(inputText) = <<>> \/ currentSessionId = Null
    THEN UNCHANGED vars
    ELSE handleSendTextBody

\* handleSendText: the early return, else the body up to the first await
handleSendText ==
    IF Trim(inputText) = <<>> \/ isTyping \/ currentSessionId = Null
    THEN UNCHANGED vars
    ELSE handleSendTextBody

\* the send form is submitted (at most MaxSends times)
HandleSendText ==
    /\ nSends < MaxSends
    /\ handleSendText

\* db.saveMessage(currentSessionId, userMsg) resolves; modelMsgId is drawn and the
\* stream is opened
SaveUserDone(mError) ==
    /\ send.pc = "saveUser"
    /\ dbMessages' = saveMessageRows(send.sid, send.user, mError)
    /\ dbSessions' = saveMessageSessions(send.sid, now)
    /\ now' = now + 1
    /\ send' = [send EXCEPT !.pc = "stream", !.modelId = nextUuid + 1]
    /\ nextUuid' = nextUuid + 1
    /\ owner' = owner \cup {<<nextUuid + 1, send.sid>>}
    /\ UNCHANGED <<currentSessionId, sessions, messages, view, inputText, isTyping,
                   nextSession, received, nSends>>
    /\ UNCHANGED <<voiceVars, playVars, capturedSessionId, glueVars>>

\* the setMessages updater of the streaming loop
UpdateModelMessage(prev, modelMsgId, modelText, timestamp) ==
    IF \E i \in DOMAIN prev : prev[i].id = modelMsgId
    THEN [i \in DOMAIN prev |->
            IF prev[i].id = modelMsgId THEN [prev[i] EXCEPT !.text = modelText] ELSE prev[i]]
    ELSE Append(prev, [id |-> modelMsgId, role |-> MODEL, text |-> modelText,
                       timestamp |-> timestamp])

\* one iteration of the for-await loop
StreamChunk ==
    /\ send.pc = "stream"
    /\ Len(received) < MaxChunks
    /\ received' = Append(received, Chunk(Len(received) + 1))
    /\ send' = [send EXCEPT !.modelText = @ \o Chunk(Len(received) + 1)]
    /\ messages' = UpdateModelMessage(messages, send.modelId,
                                      send.modelText \o Chunk(Len(received) + 1), now)
    /\ now' = IF \E i \in DOMAIN messages : messages[i].id = send.modelId
              THEN now ELSE now + 1
    /\ UNCHANGED <<currentSessionId, sessions, view, inputText, isTyping, dbSessions,
                   dbMessages, nextUuid, nextSession, nSends>>
    /\ UNCHANGED <<voiceVars, playVars, restVars>>

\* the stream ends: db.saveMessage is called with the model message
StreamEnd ==
    /\ send.pc = "stream"
    /\ send' = [send EXCEPT !.pc = "saveModel", !.modelTimestamp = now]
    /\ now' = now + 1
    /\ UNCHANGED <<currentSessionId, sessions, messages, view, inputText, isTyping,
                   dbSessions, dbMessages, nextUuid, nextSession, received, nSends>>
    /\ UNCHANGED <<voiceVars, playVars, restVars>>

\* the stream throws, with a catch block and no finally block
StreamThrowNoFinally ==
    /\ send.pc = "stream"
    /\ errorMessage' = "Gemini offline."
    /\ send' = [send EXCEPT !.pc = "idle", !.result = "threw"]
    /\ UNCHANGED <<currentSessionId, sessions, messages, view, inputText, isTyping,
                   dbSessions, dbMessages, now, nextUuid, nextSession, received, nSends>>
    /\ UNCHANGED <<isVoiceActive, audioContextInRef, audioContextOutRef, mediaStreamRef,
                   sessionPromiseRef, startPc, session, closeRequested, closedIn,
                   closedOut, stoppedStreams, processors, pendingSends, sentFrames,
                   framesCaptured>>
    /\ UNCHANGED <<playVars, restVars>>

\* the stream throws: catch and finally
StreamThrow ==
    /\ send.pc = "stream"
    /\ errorMessage' = "Gemini offline."
    /\ isTyping' = FALSE
    /\ send' = [send EXCEPT !.pc = "idle", !.result = "threw"]
    /\ UNCHANGED <<currentSessionId, sessions, messages, view, inputText, dbSessions,
                   dbMessages, now, nextUuid, nextSession, received, nSends>>
    /\ UNCHANGED <<isVoiceActive, audioContextInRef, audioContextOutRef, mediaStreamRef,
                   sessionPromiseRef, startPc, session, closeRequested, closedIn,
                   closedOut, stoppedStreams, processors, pendingSends, sentFrames,
                   framesCaptured>>
    /\ UNCHANGED <<playVars, restVars>>

\* db.saveMessage(currentSessionId, model message) resolves; finally
SaveModelDone(mError) ==
    /\ send.pc = "saveModel"
    /\ dbMessages' = saveMessageRows(send.sid,
                                     [id |-> send.modelId, role |-> MODEL,
                                      text |-> send.modelText,
                                      timestamp |-> send.modelTimestamp],
                                     mError)
    /\ dbSessions' = saveMessageSessions(send.sid, now)
    /\ now' = now + 1
    /\ isTyping' = FALSE
    /\ send' = [send EXCEPT !.pc = "idle", !.result = "done"]
    /\ UNCHANGED <<currentSessionId, sessions, messages, view, inputText, nextUuid,
                   nextSession, received, nSends>>
    /\ UNCHANGED <<voiceVars, playVars, restVars>>

\* ------------------------------------------------- chat: createNewSession

\* createNewSession that makes the new session current before it is saved
createNewSessionOptimistic(ok) ==
    /\ nextSession' = nextSession + 1
    /\ now' = now + 1
    /\ sessions' = <<nextSession + 1>> \o sessions
    /\ currentSessionId' = nextSession + 1
    /\ messages' = <<>>
    /\ view' = "chat"
    /\ IF ok
       THEN /\ dbSessions' = Upsert(dbSessions,
                                    [id |-> nextSession + 1, updated_at |-> now])
            /\ UNCHANGED errorMessage
       ELSE /\ errorMessage' = "Could not create cloud session."
            /\ UNCHANGED dbSessions
    /\ UNCHANGED <<inputText, isTyping, dbMessages, nextUuid, send, received, nSends>>

\* createNewSession: db.saveSession resolves (ok) or throws
createNewSession(ok) ==
    /\ nextSession' = nextSession + 1
    /\ now' = now + 1
    /\ IF ok
       THEN /\ dbSessions' = Upsert(dbSessions,
                                    [id |-> nextSession + 1, updated_at |-> now])
            /\ sessions' = <<nextSession + 1>> \o sessions
            /\ currentSessionId' = nextSession + 1
            /\ messages' = <<>>
            /\ view' = "chat"
            /\ UNCHANGED errorMessage
       ELSE /\ errorMessage' = "Could not create cloud session."
            /\ UNCHANGED <<dbSessions, sessions, currentSessionId, messages, view>>
    /\ UNCHANGED <<inputText, isTyping, dbMessages, nextUuid, send, received, nSends>>

\* the new-chat button: createNewSession
CreateNewSession(ok) ==
    /\ nextSession < MaxSessions
    /\ createNewSession(ok)
    /\ UNCHANGED voiceButError
    /\ UNCHANGED <<playVars, restVars>>

\* ---------------------------------------------------- the chat specification

\* The app after start-up on an empty database: refreshData found no session and
\* createNewSession made session 1 current.
InitChatReady ==
    /\ currentSessionId = 1
    /\ sessions = <<1>>
    /\ messages = <<>>
    /\ view = "chat"
    /\ inputText = <<>>
    /\ isTyping = FALSE
    /\ dbSessions = {[id |-> 1, updated_at |-> 1]}
    /\ dbMessages = {}
    /\ now = 2
    /\ nextUuid = 0
    /\ nextSession = 1
    /\ send = SendIdle
    /\ received = <<>>
    /\ nSends = 0

InitText ==
    /\ InitVoice
    /\ InitPlay
    /\ InitChatReady
    /\ InitGlue
    /\ capturedSessionId = [c \in Calls |-> Null]

NextText ==
    \/ \E t \in InputTexts : TypeInput(t)
    \/ HandleSendText
    \/ \E mError \in BOOLEAN : SaveUserDone(mError)
    \/ StreamChunk
    \/ StreamEnd
    \/ StreamThrow
    \/ \E mError \in BOOLEAN : SaveModelDone(mError)
    \/ \E ok \in BOOLEAN : CreateNewSession(ok)

SpecText == InitText /\ [][NextText]_vars

\* A step of a send after one of its awaits.  Every awaited promise of a send
\* settles: the database answers each db.saveMessage, and the response stream
\* yields, ends or throws.
SendStep ==
    \/ \E mError \in BOOLEAN : SaveUserDone(mError)
    \/ StreamChunk
    \/ StreamEnd
    \/ StreamThrow
    \/ \E mError \in BOOLEAN : SaveModelDone(mError)

\* the chat with one text to type
NextSend ==
    \/ TypeInput(<<"a", " ">>)
    \/ HandleSendText
    \/ SendStep
    \/ \E ok \in BOOLEAN : CreateNewSession(ok)

SpecTextFair == InitText /\ [][NextSend]_vars /\ WF_vars(SendStep)

\* ---------------------------------------------------- claims on SpecText

RECURSIVE Concat(_)
Concat(chunks) == IF chunks = <<>> THEN <<>> ELSE Head(chunks) \o Concat(Tail(chunks))

\* C8: during a text send, from the first chunk on, the displayed list holds
\* exactly one message with the send's modelMsgId; it is a MODEL message placed
\* after the send's USER message and its text is the concatenation of the
\* chunks received so far.
C8_OneModelMessageWhileStreaming ==
    (send.pc \in {"stream", "saveModel"} /\ received # <<>>) =>
        /\ Cardinality({i \in DOMAIN messages : messages[i].id = send.modelId}) = 1
        /\ \A i \in DOMAIN messages :
              messages[i].id = send.modelId =>
                  /\ messages[i].role = MODEL
                  /\ messages[i].text = Concat(received)
                  /\ \E j \in 1..(i - 1) : messages[j] = send.user

\* the row db.saveMessage(sessionId, message) writes
RowOf(sessionId, message) ==
    [id |-> message.id, session_id |-> sessionId, role |-> message.role,
     text |-> message.text, timestamp |-> message.timestamp]

\* C9: the USER message is in the messages table under the send's session id
\* from the moment streaming begins; the MODEL message is saved only after the
\* stream ended, under the same session id and with the whole streamed text;
\* when the stream throws, no MODEL message is saved, errorMessage becomes
\* 'Gemini offline.' and the USER message stays saved.
C9_SaveOrder ==
    /\ [](send.pc \in {"stream", "saveModel"} => RowOf(send.sid, send.user) \in dbMessages)
    /\ [](send.pc \in {"saveUser", "stream", "saveModel"} =>
             \A r \in dbMessages : r.id # send.modelId \/ send.modelId = Null)
    /\ []((send.pc = "idle" /\ send.result = "done") =>
             /\ RowOf(send.sid, send.user) \in dbMessages
             /\ \E r \in dbMessages :
                   /\ r.id = send.modelId /\ r.session_id = send.sid
                   /\ r.role = MODEL /\ r.text = Concat(received))
    /\ []((send.pc = "idle" /\ send.result = "threw") =>
             /\ RowOf(send.sid, send.user) \in dbMessages
             /\ \A r \in dbMessages : r.id # send.modelId)
    /\ [][(send.pc = "stream" /\ send'.pc = "idle") => errorMessage' = "Gemini offline."]_vars

\* id, role and text of each message of a list
Shown(list) ==
    [i \in DOMAIN list |-> [id |-> list[i].id, role |-> list[i].role, text |-> list[i].text]]

\* C10: whenever no send is in flight, db.getSession(currentSessionId) returns
\* the same ids, roles and texts, in the same order, as the displayed list.
C10_PersistedEqualsDisplayed ==
    send.pc = "idle" =>
        Shown(getSessionMessages(currentSessionId)) = Shown(messages)

\* C20: a handleSendText call that passed its guard, and so set isTyping, sets
\* isTyping back to false.
C20_TypingEventuallyReset == isTyping ~> ~isTyping

\* C20 witness: a send ended with isTyping false although its user message is
\* not in the messages table.
C20_Witness ==
    /\ send.pc = "idle"
    /\ send.result \in {"done", "threw"}
    /\ RowOf(send.sid, send.user) \notin dbMessages
    /\ ~isTyping

\* C19: every displayed message was made for the session that is current.
C19_MessagesBelongToCurrentSession ==
    \A i \in DOMAIN messages : <<messages[i].id, currentSessionId>> \in owner

\* ------------------------------------------------ the send-form specification

\* the send form is submitted (at most MaxSubmits sends pass the guard)
SubmitSendForm ==
    /\ nSends < MaxSubmits
    /\ handleSendText

\* the chat before any session is current, or with session 1 current
InitSendForm == Init \/ InitText

NextSendForm ==
    \/ \E t \in InputTexts : TypeInput(t)
    \/ SubmitSendForm
    \/ SendStep

SpecSendForm == InitSendForm /\ [][NextSendForm]_vars

\* a text send is between its start and its finally block
InFlight == send.pc # "idle"

\* C21: a step in which handleSendText does anything (a send starts) is taken
\* with a non-blank trimmed input, isTyping false and a current session, and
\* while no other send is in flight; and a send in flight keeps isTyping true,
\* so at most one text stream is in flight.
C21_SendOnlyPastGuard ==
    [][ /\ nSends' # nSends =>
            /\ Trim(inputText) # <<>>
            /\ ~isTyping
            /\ currentSessionId # Null
            /\ ~InFlight
        /\ InFlight' => isTyping'
      ]_vars

\* C21 witness: a second submit is possible while the first send is streaming,
\* with non-blank input and a current session, so only isTyping refuses it.
C21_Witness ==
    /\ send.pc = "stream"
    /\ isTyping
    /\ Trim(inputText) # <<>>
    /\ currentSessionId # Null
    /\ nSends < MaxSubmits

\* C25: a createNewSession whose db.saveSession fails leaves sessions,
\* currentSessionId, messages and view (and the input, the typing flag and the
\* voice state) as they were and sets errorMessage to 'Could not create cloud
\* session.'; one whose db.saveSession succeeds prepends the new session to
\* sessions, makes it current, empties messages and shows the chat view.
C25_CreateNewSessionFrame ==
    [][nextSession' # nextSession =>
         IF \E r \in dbSessions' : r.id = nextSession + 1
         THEN /\ sessions' = <<nextSession + 1>> \o sessions
              /\ currentSessionId' = nextSession + 1
              /\ messages' = <<>>
              /\ view' = "chat"
         ELSE /\ UNCHANGED <<sessions, currentSessionId, messages, view>>
              /\ UNCHANGED <<inputText, isTyping, voiceButError>>
              /\ errorMessage' = "Could not create cloud session."
      ]_vars

\* C25 witness: a creation failed while session 1 was current and showed
\* messages, and they are still there.
C25_Witness ==
    /\ nextSession = 2
    /\ ~\E r \in dbSessions : r.id = 2
    /\ errorMessage = "Could not create cloud session."
    /\ currentSessionId = 1
    /\ sessions = <<1>>
    /\ messages # <<>>
    /\ view = "chat"

\* ------------------------------------------- onmessage: the transcriptions

\* the text of the n-th transcription fragment the server delivers
Fragment(n) == <<ToString(n)>>

\* onmessage for a message without audio and without the interrupted flag, from
\* its start to its first await of db.saveMessage, or to its end.  inT and outT
\* tell whether the message carries an input and an output transcription.
OnMessageText(s, inT, outT, turnComplete) ==
    /\ nTurnMsgs < MaxTurnMsgs
    /\ session[s] = "open"
    /\ inT \/ outT \/ turnComplete
    /\ LET h == nTurnMsgs + 1
           sid == capturedSessionId[s]
           inFragment == nFragments + 1
           outFragment == IF inT THEN nFragments + 2 ELSE nFragments + 1
           userText == IF inT THEN currentInputTranscription \o Fragment(inFragment)
                       ELSE currentInputTranscription
           modelText == IF ~inT /\ outT
                        THEN currentOutputTranscription \o Fragment(outFragment)
                        ELSE currentOutputTranscription
           msg == [id |-> nextUuid + 1, role |-> IF userText # <<>> THEN USER ELSE MODEL,
                   text |-> IF userText # <<>> THEN userText ELSE modelText,
                   timestamp |-> now]
           turn == [NoTurn EXCEPT !.sid = sid, !.turnComplete = turnComplete,
                                  !.userText = userText, !.modelText = modelText]
       IN  /\ nTurnMsgs' = h
           /\ nFragments' = nFragments + (IF inT THEN 1 ELSE 0) + (IF outT THEN 1 ELSE 0)
           /\ IF turnComplete /\ sid # Null /\ (userText # <<>> \/ modelText # <<>>)
              THEN /\ currentInputTranscription' = userText
                   /\ currentOutputTranscription' = modelText
                   /\ turns' = [turns EXCEPT ![h] =
                                  IF userText # <<>>
                                  THEN [turn EXCEPT !.pc = "saveUser", !.userMsg = msg]
                                  ELSE [turn EXCEPT !.pc = "saveModel", !.modelMsg = msg]]
                   /\ nextUuid' = nextUuid + 1
                   /\ now' = now + 1
                   /\ owner' = owner \cup {<<nextUuid + 1, sid>>}
              ELSE /\ currentInputTranscription' = IF turnComplete THEN <<>> ELSE userText
                   /\ currentOutputTranscription' = IF turnComplete THEN <<>> ELSE modelText
                   /\ turns' = [turns EXCEPT ![h] = [turn EXCEPT !.pc = "done"]]
                   /\ UNCHANGED <<nextUuid, now, owner>>
    /\ UNCHANGED <<currentSessionId, sessions, messages, view, inputText, isTyping,
                   dbSessions, dbMessages, nextSession, send, received, nSends>>
    /\ UNCHANGED <<voiceVars, playVars, capturedSessionId, glueButTurn>>

\* db.saveMessage(currentSessionId, userMsg) resolves in a turnComplete handler:
\* the USER message is appended, then the MODEL message is made and its save
\* awaited, or the buffers are cleared
TurnSaveUserDone(h, mError) ==
    /\ turns[h].pc = "saveUser"
    /\ dbMessages' = saveMessageRows(turns[h].sid, turns[h].userMsg, mError)
    /\ dbSessions' = saveMessageSessions(turns[h].sid, now)
    /\ messages' = Append(messages, turns[h].userMsg)
    /\ IF turns[h].modelText # <<>>
       THEN /\ turns' = [turns EXCEPT ![h].pc = "saveModel",
                                      ![h].modelMsg =
                                          [id |-> nextUuid + 1, role |-> MODEL,
                                           text |-> turns[h].modelText,
                                           timestamp |-> now + 1]]
            /\ nextUuid' = nextUuid + 1
            /\ now' = now + 2
            /\ owner' = owner \cup {<<nextUuid + 1, turns[h].sid>>}
            /\ UNCHANGED <<currentInputTranscription, currentOutputTranscription>>
       ELSE /\ turns' = [turns EXCEPT ![h].pc = "done"]
            /\ now' = now + 1
            /\ currentInputTranscription' = <<>>
            /\ currentOutputTranscription' = <<>>
            /\ UNCHANGED <<nextUuid, owner>>
    /\ UNCHANGED <<currentSessionId, sessions, view, inputText, isTyping, nextSession,
                   send, received, nSends>>
    /\ UNCHANGED <<nTurnMsgs, nFragments>>
    /\ UNCHANGED <<voiceVars, playVars, capturedSessionId, glueButTurn>>

\* db.saveMessage(currentSessionId, modelMsg) resolves: the MODEL message is
\* appended and the buffers are cleared
TurnSaveModelDone(h, mError) ==
    /\ turns[h].pc = "saveModel"
    /\ dbMessages' = saveMessageRows(turns[h].sid, turns[h].modelMsg, mError)
    /\ dbSessions' = saveMessageSessions(turns[h].sid, now)
    /\ now' = now + 1
    /\ messages' = Append(messages, turns[h].modelMsg)
    /\ turns' = [turns EXCEPT ![h].pc = "done"]
    /\ currentInputTranscription' = <<>>
    /\ currentOutputTranscription' = <<>>
    /\ UNCHANGED <<currentSessionId, sessions, view, inputText, isTyping, nextSession,
                   nextUuid, send, received, nSends>>
    /\ UNCHANGED <<nTurnMsgs, nFragments, owner>>
    /\ UNCHANGED <<voiceVars, playVars, capturedSessionId, glueButTurn>>

\* --------------------------------------------- the transcription specification

\* An established voice session that was started while chat session 1 was current.
InitTurns ==
    /\ InitVoiceOpen
    /\ InitPlay
    /\ InitChatReady
    /\ InitGlue
    /\ capturedSessionId = [c \in Calls |-> IF c = 1 THEN 1 ELSE Null]

NextTurns ==
    \/ \E s \in Calls, inT \in BOOLEAN, outT \in BOOLEAN, turnComplete \in BOOLEAN :
          OnMessageText(s, inT, outT, turnComplete)
    \/ \E h \in 1..MaxTurnMsgs, mError \in BOOLEAN : TurnSaveUserDone(h, mError)
    \/ \E h \in 1..MaxTurnMsgs, mError \in BOOLEAN : TurnSaveModelDone(h, mError)
    \/ StopVoiceSession
    \/ \E s \in Calls : OnClose(s)

SpecTurns == InitTurns /\ [][NextTurns]_vars

\* ---------------------------------------------------- claims on SpecTurns

\* the message is the last of the displayed list and its row is in the table
SavedAndAppended(sid, msg) ==
    /\ messages' = Append(messages, msg)
    /\ RowOf(sid, msg) \in dbMessages'

\* C11: a turnComplete handler of a voice session that has a chat session saves
\* and appends the non-empty user transcription as a USER message, then the
\* non-empty model transcription as a MODEL message, and when it ends both
\* buffers are empty.
C11_TurnCompleteSavesTurn ==
    [][\A h \in 1..MaxTurnMsgs :
          /\ (turns[h].pc = "saveUser" /\ turns'[h].pc # "saveUser")
                => /\ turns[h].userMsg.role = USER
                   /\ turns[h].userMsg.text = turns[h].userText
                   /\ SavedAndAppended(turns[h].sid, turns[h].userMsg)
                   /\ turns[h].modelText # <<>> => turns'[h].pc = "saveModel"
          /\ (turns[h].pc = "saveModel" /\ turns'[h].pc # "saveModel")
                => /\ turns[h].modelMsg.role = MODEL
                   /\ turns[h].modelMsg.text = turns[h].modelText
                   /\ SavedAndAppended(turns[h].sid, turns[h].modelMsg)
                   /\ turns[h].userText # <<>>
                         => \E i \in DOMAIN messages : messages[i] = turns[h].userMsg
          /\ (turns[h].pc # "done" /\ turns'[h].pc = "done" /\ turns'[h].turnComplete)
                => /\ currentInputTranscription' = <<>>
                   /\ currentOutputTranscription' = <<>>
          /\ (turns[h].pc = "none" /\ turns'[h].pc # "none" /\ turns'[h].turnComplete
              /\ turns'[h].sid # Null)
                => /\ turns'[h].userText # <<>> => turns'[h].pc = "saveUser"
                   /\ (turns'[h].userText = <<>> /\ turns'[h].modelText # <<>>)
                         => turns'[h].pc = "saveModel"]_vars

\* how many times the fragment occurs in the text
RECURSIVE Occurrences(_, _)
Occurrences(text, fragment) ==
    IF text = <<>> THEN 0
    ELSE (IF <<Head(text)>> = fragment THEN 1 ELSE 0) + Occurrences(Tail(text), fragment)

\* how many times the fragment occurs in the texts of the displayed messages
RECURSIVE OccurrencesInMessages(_, _)
OccurrencesInMessages(list, fragment) ==
    IF list = <<>> THEN 0
    ELSE Occurrences(Head(list).text, fragment)
         + OccurrencesInMessages(Tail(list), fragment)

\* C12: once every handler has ended and the buffers are empty, each delivered
\* transcription fragment is in the text of exactly one appended message.
C12_NoFragmentLostOrDuplicated ==
    (/\ \A h \in 1..MaxTurnMsgs : turns[h].pc \in {"none", "done"}
     /\ currentInputTranscription = <<>>
     /\ currentOutputTranscription = <<>>)
        => \A n \in 1..nFragments : OccurrencesInMessages(messages, Fragment(n)) = 1

\* ------------------------------------------------------- the logo updates

\* what the Enter key of the URL field can pass, and the data URL of a file
LogoUrls == {<<" ">>, <<"u">>, <<"v">>}
LogoFile == <<"b">>

\* handleLogoUrlUpdate up to its await of Promise.all
HandleLogoUrlUpdate(url) ==
    /\ nLogoOps < MaxLogoOps
    /\ IF Trim(url) = <<>>
       THEN UNCHANGED vars
       ELSE /\ isUpdatingLogo' = TRUE
            /\ nLogoOps' = nLogoOps + 1
            /\ logoOps' = [logoOps EXCEPT ![nLogoOps + 1] =
                             [pc |-> "saving", kind |-> "url", value |-> url,
                              saves |-> [key \in BrandingKeys |-> "pending"]]]
            /\ UNCHANGED <<appIcon, projectLogo, dbBranding>>
            /\ UNCHANGED <<voiceVars, playVars, textVars, capturedSessionId, owner,
                           glueButLogo>>

\* handleLogoUpload: with a file chosen, the reader is started
HandleLogoUpload(hasFile) ==
    /\ nLogoOps < MaxLogoOps
    /\ IF ~hasFile
       THEN UNCHANGED vars
       ELSE /\ isUpdatingLogo' = TRUE
            /\ nLogoOps' = nLogoOps + 1
            /\ logoOps' = [logoOps EXCEPT ![nLogoOps + 1] =
                             [NoLogoOp EXCEPT !.pc = "reading", !.kind = "upload"]]
            /\ UNCHANGED <<appIcon, projectLogo, dbBranding>>
            /\ UNCHANGED <<voiceVars, playVars, textVars, capturedSessionId, owner,
                           glueButLogo>>

\* reader.onloadend up to its await of Promise.all
ReaderLoadEnd(h) ==
    /\ logoOps[h].pc = "reading"
    /\ logoOps' = [logoOps EXCEPT ![h].pc = "saving", ![h].value = LogoFile,
                                  ![h].saves = [key \in BrandingKeys |-> "pending"]]
    /\ UNCHANGED <<appIcon, projectLogo, isUpdatingLogo, dbBranding, nLogoOps>>
    /\ UNCHANGED <<voiceVars, playVars, textVars, capturedSessionId, owner, glueButLogo>>

\* db.saveBranding(key, value): the upsert on the branding table
saveBranding(key, value, ok) ==
    IF ok THEN [dbBranding EXCEPT ![key] = value] ELSE dbBranding

\* One db.saveBranding of attempt h settles.  Promise.all resolves when both have
\* resolved and rejects when the first of them rejects; the code after the await
\* runs then.  A rejection inside reader.onloadend has no handler.
SaveBrandingDone(h, key, ok) ==
    /\ logoOps[h].saves[key] = "pending"
    /\ dbBranding' = saveBranding(key, logoOps[h].value, ok)
    /\ LET saves == [logoOps[h].saves EXCEPT ![key] = IF ok THEN "ok" ELSE "failed"]
           waiting == logoOps[h].pc = "saving"
       IN  IF waiting /\ \A k \in BrandingKeys : saves[k] = "ok"
           THEN /\ logoOps' = [logoOps EXCEPT ![h].saves = saves, ![h].pc = "done"]
                /\ projectLogo' = logoOps[h].value
                /\ appIcon' = logoOps[h].value
                /\ isUpdatingLogo' = FALSE
                /\ UNCHANGED errorMessage
           ELSE IF waiting /\ ~ok /\ logoOps[h].kind = "url"
           THEN /\ logoOps' = [logoOps EXCEPT ![h].saves = saves, ![h].pc = "failed"]
                /\ errorMessage' = "Logo update failed."
                /\ isUpdatingLogo' = FALSE
                /\ UNCHANGED <<projectLogo, appIcon>>
           ELSE IF waiting /\ ~ok
           THEN /\ logoOps' = [logoOps EXCEPT ![h].saves = saves, ![h].pc = "rejected"]
                /\ UNCHANGED <<errorMessage, isUpdatingLogo, projectLogo, appIcon>>
           ELSE /\ logoOps' = [logoOps EXCEPT ![h].saves = saves]
                /\ UNCHANGED <<errorMessage, isUpdatingLogo, projectLogo, appIcon>>
    /\ UNCHANGED nLogoOps
    /\ UNCHANGED <<voiceButError, playVars, textVars, capturedSessionId, owner,
                   glueButLogo>>

NextLogo ==
    \/ \E url \in LogoUrls : HandleLogoUrlUpdate(url)
    \/ \E hasFile \in BOOLEAN : HandleLogoUpload(hasFile)
    \/ \E h \in 1..MaxLogoOps : ReaderLoadEnd(h)
    \/ \E h \in 1..MaxLogoOps, key \in BrandingKeys, ok \in BOOLEAN :
          SaveBrandingDone(h, key, ok)

SpecLogo == Init /\ [][NextLogo]_vars

\* ----------------------------------------------------- claims on SpecLogo

\* C13: once every logo update attempt has run as far as it goes, isUpdatingLogo
\* is false.
C13_LogoUpdateResetsFlag ==
    (\A h \in 1..MaxLogoOps : logoOps[h].pc \in {"none", "done", "failed", "rejected"})
        => ~isUpdatingLogo

\* C14: projectLogo and appIcon change only in a step after which both saves of
\* an attempt have succeeded, and both take that attempt's value; the step in
\* which a save of a waiting attempt fails leaves both unchanged and sets
\* errorMessage to 'Logo update failed.'; no attempt is made for a blank URL.
C14_LogoChangesOnlyAfterBothSaves ==
    /\ [][(projectLogo' # projectLogo \/ appIcon' # appIcon)
             => \E h \in 1..MaxLogoOps :
                   /\ \A key \in BrandingKeys : logoOps'[h].saves[key] = "ok"
                   /\ projectLogo' = logoOps[h].value
                   /\ appIcon' = logoOps[h].value]_vars
    /\ [][\A h \in 1..MaxLogoOps :
             (/\ logoOps[h].pc = "saving"
              /\ \E key \in BrandingKeys : logoOps'[h].saves[key] = "failed")
                => /\ projectLogo' = projectLogo
                   /\ appIcon' = appIcon
                   /\ errorMessage' = "Logo update failed."]_vars
    /\ [](\A h \in 1..MaxLogoOps : logoOps[h].kind = "url" => Trim(logoOps[h].value) # <<>>)

\* --------------------------------------------------- the property catalog

\* String.prototype.toLowerCase on one character
LowerChar(c) ==
    CASE c = "A" -> "a"
      [] c = "B" -> "b"
      [] c = "D" -> "d"
      [] OTHER -> c

\* String.prototype.toLowerCase keeping every character as it is
toLowerCaseKeepingCase(t) == t

\* String.prototype.toLowerCase
toLowerCase(t) == [i \in DOMAIN t |-> LowerChar(t[i])]

\* String.prototype.includes
includes(text, part) ==
    \E i \in 0..(Len(text) - Len(part)) : SubSeq(text, i + 1, i + Len(part)) = part

\* the predicate of properties.filter
Matches(p) ==
    LET query == toLowerCase(searchQuery)
        matchesSearch == \/ includes(toLowerCase(p.name), query)
                         \/ includes(toLowerCase(p.description), query)
                         \/ includes(toLowerCase(p.city), query)
        matchesType == typeFilter = ALL_TYPES \/ p.type = typeFilter
        matchesCity == cityFilter = ALL_CITIES \/ p.city = cityFilter
    IN  matchesSearch /\ matchesType /\ matchesCity

\* Array.prototype.filter
RECURSIVE Filter(_)
Filter(list) ==
    IF list = <<>> THEN <<>>
    ELSE (IF Matches(Head(list)) THEN <<Head(list)>> ELSE <<>>) \o Filter(Tail(list))

filteredProperties == Filter(properties)

\* ['All Types', ...types] and ['All Cities', ...cities]
uniqueTypes == {ALL_TYPES} \cup {properties[i].type : i \in DOMAIN properties}
uniqueCities == {ALL_CITIES} \cup {properties[i].city : i \in DOMAIN properties}

\* the rows of the properties table the catalog is loaded from
PropertyPool ==
    {[id |-> 1, name |-> <<"A", "b">>, description |-> <<"x">>, city |-> <<"D">>,
      type |-> <<"V">>],
     [id |-> 2, name |-> <<"b">>, description |-> <<"A">>, city |-> <<"n">>,
      type |-> <<"V">>],
     [id |-> 3, name |-> <<"c">>, description |-> <<"y", "a">>, city |-> <<"D">>,
      type |-> <<"F">>]}

\* the lists of up to MaxProps distinct rows
PropertyLists ==
    UNION {{list \in [1..n -> PropertyPool] :
               \A i, j \in 1..n : i # j => list[i].id # list[j].id} : n \in 0..MaxProps}

SearchQueries == {<<>>, <<"a">>, <<"A">>, <<"a", "B">>, <<"d">>, <<"z">>}

\* the search field's onChange
SetSearchQuery(q) ==
    /\ q # searchQuery
    /\ searchQuery' = q
    /\ UNCHANGED <<properties, typeFilter, cityFilter>>
    /\ UNCHANGED <<voiceVars, playVars, textVars, capturedSessionId, owner, glueButCatalog>>

\* the type select's onChange
SetTypeFilter(t) ==
    /\ t # typeFilter
    /\ typeFilter' = t
    /\ UNCHANGED <<properties, searchQuery, cityFilter>>
    /\ UNCHANGED <<voiceVars, playVars, textVars, capturedSessionId, owner, glueButCatalog>>

\* the city select's onChange
SetCityFilter(c) ==
    /\ c # cityFilter
    /\ cityFilter' = c
    /\ UNCHANGED <<properties, searchQuery, typeFilter>>
    /\ UNCHANGED <<voiceVars, playVars, textVars, capturedSessionId, owner, glueButCatalog>>

\* The app after refreshData loaded a catalog.
InitCatalogLoaded ==
    /\ InitVoice
    /\ InitPlay
    /\ InitChatReady
    /\ InitTurn
    /\ InitLogo
    /\ InitLead
    /\ InitCalls
    /\ dbSetupRequired = FALSE
    /\ isSyncing = FALSE
    /\ startup = [StartupIdle EXCEPT !.pc = "done"]
    /\ capturedSessionId = [c \in Calls |-> Null]
    /\ properties \in PropertyLists
    /\ dbProperties = properties
    /\ searchQuery = <<>>
    /\ typeFilter = ALL_TYPES
    /\ cityFilter = ALL_CITIES

NextCatalog ==
    \/ \E q \in SearchQueries : SetSearchQuery(q)
    \/ \E t \in uniqueTypes : SetTypeFilter(t)
    \/ \E c \in uniqueCities : SetCityFilter(c)

SpecCatalog == InitCatalogLoaded /\ [][NextCatalog]_vars

\* --------------------------------------------------- claims on SpecCatalog

\* the two characters are the same letter, whatever their case
SameLetter(a, b) ==
    \/ a = b
    \/ {a, b} \in {{"a", "A"}, {"b", "B"}, {"d", "D"}}

\* the text contains the part at some position, letters compared without case
ContainsIgnoringCase(text, part) ==
    \E i \in 0..(Len(text) - Len(part)) :
       \A k \in 1..Len(part) : SameLetter(text[i + k], part[k])

\* what the catalog is to show of a property
Wanted(p) ==
    /\ \/ ContainsIgnoringCase(p.name, searchQuery)
       \/ ContainsIgnoringCase(p.description, searchQuery)
       \/ ContainsIgnoringCase(p.city, searchQuery)
    /\ typeFilter # ALL_TYPES => p.type = typeFilter
    /\ cityFilter # ALL_CITIES => p.city = cityFilter

\* C15: filteredProperties is the subsequence of properties, in order, of the
\* properties that match the query without regard to case and pass both filters;
\* with an empty query and the default filters it is properties.
C15_FilteredIsMatchingSubsequence ==
    /\ \E at \in [1..Len(filteredProperties) -> 1..Len(properties)] :
          /\ \A i, j \in DOMAIN at : i < j => at[i] < at[j]
          /\ \A i \in DOMAIN at : filteredProperties[i] = properties[at[i]]
          /\ {at[i] : i \in DOMAIN at} = {n \in DOMAIN properties : Wanted(properties[n])}
    /\ (searchQuery = <<>> /\ typeFilter = ALL_TYPES /\ cityFilter = ALL_CITIES)
          => filteredProperties = properties

\* C15 witness: an upper-case query and a type filter keep one of two properties.
C15_Witness ==
    /\ searchQuery = <<"A">>
    /\ typeFilter # ALL_TYPES
    /\ Len(properties) = 2
    /\ Len(filteredProperties) = 1

\* ----------------------------------------------------------- the lead form

\* messages.slice(-n) taking the first n elements
SliceFirst(list, n) == SubSeq(list, 1, IF Len(list) < n THEN Len(list) ELSE n)

\* messages.slice(-n)
SliceLast(list, n) == SubSeq(list, Max(1, Len(list) - n + 1), Len(list))

\* `[${m.role}] ${m.text}`
FormatMessage(m) == <<"[", m.role, "] ">> \o m.text

\* Array.prototype.join('\n') of the formatted messages
RECURSIVE JoinLines(_)
JoinLines(list) ==
    IF list = <<>> THEN <<>>
    ELSE IF Len(list) = 1 THEN FormatMessage(list[1])
    ELSE FormatMessage(Head(list)) \o <<"\n">> \o JoinLines(Tail(list))

\* the names the inputs of the form are given
LeadNames == {<<"n">>, <<"m">>}
InterestAreas == {<<"A", "b">>, <<"c">>}

\* the enquiry button of a property card
OpenLeadModal(interest) ==
    /\ leadForm' = [k \in (DOMAIN leadForm) \cup {"interest_area"} |->
                       IF k = "interest_area" THEN interest ELSE leadForm[k]]
    /\ showLeadModal' = TRUE
    /\ (leadForm' # leadForm \/ ~showLeadModal)
    /\ UNCHANGED <<dbCustomers, leadOps, nLeadOps>>
    /\ UNCHANGED <<voiceVars, playVars, textVars, capturedSessionId, owner, glueButLead>>

\* the onChange of the form's name input
EditLeadForm(name) ==
    /\ showLeadModal
    /\ name # leadForm.full_name
    /\ leadForm' = [leadForm EXCEPT !.full_name = name]
    /\ UNCHANGED <<showLeadModal, dbCustomers, leadOps, nLeadOps>>
    /\ UNCHANGED <<voiceVars, playVars, textVars, capturedSessionId, owner, glueButLead>>

\* the Abort button of the form
AbortLead ==
    /\ showLeadModal
    /\ showLeadModal' = FALSE
    /\ UNCHANGED <<leadForm, dbCustomers, leadOps, nLeadOps>>
    /\ UNCHANGED <<voiceVars, playVars, textVars, capturedSessionId, owner, glueButLead>>

\* handleLeadSubmit up to its await of db.saveCustomerLead
HandleLeadSubmit ==
    /\ showLeadModal
    /\ nLeadOps < MaxLeadOps
    /\ nLeadOps' = nLeadOps + 1
    /\ leadOps' = [leadOps EXCEPT ![nLeadOps + 1] =
                     [pc |-> "saving", form |-> leadForm,
                      summary |-> JoinLines(SliceLast(messages, 5))]]
    /\ UNCHANGED <<showLeadModal, leadForm, dbCustomers>>
    /\ UNCHANGED <<voiceVars, playVars, textVars, capturedSessionId, owner, glueButLead>>

\* db.saveCustomerLead: the insert into the customers table
saveCustomerLead(lead, chatSummary) ==
    Append(dbCustomers, [lead |-> lead, last_chat_summary |-> chatSummary])

\* db.saveCustomerLead resolves (ok) or throws
SaveCustomerLeadDone(h, ok) ==
    /\ leadOps[h].pc = "saving"
    /\ IF ok
       THEN /\ dbCustomers' = saveCustomerLead(leadOps[h].form, leadOps[h].summary)
            /\ showLeadModal' = FALSE
            /\ leadOps' = [leadOps EXCEPT ![h].pc = "done"]
            /\ UNCHANGED errorMessage
       ELSE /\ errorMessage' = "Could not save lead details."
            /\ leadOps' = [leadOps EXCEPT ![h].pc = "failed"]
            /\ UNCHANGED <<dbCustomers, showLeadModal>>
    /\ UNCHANGED <<leadForm, nLeadOps>>
    /\ UNCHANGED <<voiceButError, playVars, textVars, capturedSessionId, owner,
                   glueButLead>>

\* the n messages of a conversation of session 1, as the chat displays them
Conversation(n) ==
    [i \in 1..n |-> [id |-> i, role |-> IF i % 2 = 1 THEN USER ELSE MODEL,
                     text |-> <<"t", ToString(i)>>, timestamp |-> i + 1]]

\* The app with a conversation of up to MaxShown saved messages on display.
InitLeadForm ==
    /\ InitVoice
    /\ InitPlay
    /\ InitGlue
    /\ capturedSessionId = [c \in Calls |-> Null]
    /\ \E n \in 0..MaxShown :
          /\ messages = Conversation(n)
          /\ dbMessages = {RowOf(1, Conversation(n)[i]) : i \in 1..n}
          /\ nextUuid = n
          /\ now = n + 2
          /\ dbSessions = {[id |-> 1, updated_at |-> n + 1]}
    /\ currentSessionId = 1
    /\ sessions = <<1>>
    /\ view = "chat"
    /\ inputText = <<>>
    /\ isTyping = FALSE
    /\ nextSession = 1
    /\ send = SendIdle
    /\ received = <<>>
    /\ nSends = 0

NextLead ==
    \/ \E interest \in InterestAreas : OpenLeadModal(interest)
    \/ \E name \in LeadNames : EditLeadForm(name)
    \/ AbortLead
    \/ HandleLeadSubmit
    \/ \E h \in 1..MaxLeadOps, ok \in BOOLEAN : SaveCustomerLeadDone(h, ok)

SpecLead == InitLeadForm /\ [][NextLead]_vars

\* ------------------------------------------------------ claims on SpecLead

\* the summary of the claim: the last min(5, n) messages, one line each
ExpectedSummary(list) ==
    LET n == Len(list)
        k == IF n < 5 THEN n ELSE 5
        line(i) == <<"[", list[n - k + i].role, "] ">> \o list[n - k + i].text
        F[i \in 0..k] == IF i = 0 THEN <<>>
                         ELSE IF i = 1 THEN line(1)
                         ELSE F[i - 1] \o <<"\n">> \o line(i)
    IN  F[k]

\* C16: a submit takes the form and the summary of the displayed messages; when
\* the save succeeds exactly that row is inserted and the modal closes; when it
\* fails nothing is inserted, the modal stays as it is and errorMessage becomes
\* 'Could not save lead details.'.
C16_LeadSubmit ==
    [][\A h \in 1..MaxLeadOps :
          /\ (leadOps[h].pc = "none" /\ leadOps'[h].pc = "saving")
                => /\ leadOps'[h].summary = ExpectedSummary(messages)
                   /\ leadOps'[h].form = leadForm
                   /\ showLeadModal' = showLeadModal
                   /\ dbCustomers' = dbCustomers
          /\ (leadOps[h].pc = "saving" /\ leadOps'[h].pc = "done")
                => /\ dbCustomers' = Append(dbCustomers,
                                            [lead |-> leadOps[h].form,
                                             last_chat_summary |-> leadOps[h].summary])
                   /\ showLeadModal' = FALSE
          /\ (leadOps[h].pc = "saving" /\ leadOps'[h].pc \notin {"saving", "done"})
                => /\ dbCustomers' = dbCustomers
                   /\ showLeadModal' = showLeadModal
                   /\ errorMessage' = "Could not save lead details."]_vars

\* C16 witness: with more than five messages displayed, one submit was saved and
\* closed the modal and another failed.
C16_Witness ==
    /\ Len(messages) > 5
    /\ \E h \in 1..MaxLeadOps : leadOps[h].pc = "done"
    /\ \E h \in 1..MaxLeadOps : leadOps[h].pc = "failed"
    /\ Len(dbCustomers) = 1
    /\ errorMessage = "Could not save lead details."

\* ------------------------------------------------- db.saveMessage by itself

\* what the calls are made with
DbSessionIds == {1, 2}
DbMessageIds == {1, 2}
DbContents == {[role |-> USER, text |-> <<"a">>], [role |-> MODEL, text |-> <<"b">>]}

\* db.saveMessage(sessionId, message): the upsert, then the update of the session
SaveMessage(sessionId, message, mError) ==
    /\ Len(dbCalls) < MaxDbCalls
    /\ dbMessages' = saveMessageRows(sessionId, message, mError)
    /\ dbSessions' = saveMessageSessions(sessionId, now)
    /\ now' = now + 1
    /\ dbCalls' = Append(dbCalls, [sessionId |-> sessionId, message |-> message,
                                   updatedAt |-> now])
    /\ UNCHANGED <<currentSessionId, sessions, messages, view, inputText, isTyping,
                   nextUuid, nextSession, send, received, nSends>>
    /\ UNCHANGED <<voiceVars, playVars, capturedSessionId, owner, glueButDbCalls>>

NextDb ==
    \E sessionId \in DbSessionIds, id \in DbMessageIds, content \in DbContents,
       mError \in BOOLEAN :
          SaveMessage(sessionId,
                      [id |-> id, role |-> content.role, text |-> content.text,
                       timestamp |-> now],
                      mError)

\* The database holds session 1 and no messages.
SpecDb == InitText /\ [][NextDb]_vars

\* -------------------------------------------------------- claims on SpecDb

\* the last call made with the message id, when there is one
LastCallWith(id) ==
    LET made == {i \in DOMAIN dbCalls : dbCalls[i].message.id = id}
    IN  dbCalls[CHOOSE i \in made : \A j \in made : j <= i]

\* C17: the messages table holds at most one row per message id, and for an id
\* that db.saveMessage was called with, the row of the last such call; the last
\* call's session, when it has a row, carries that call's updated_at; a call
\* that repeats the last call with its id leaves the messages table as it is.
C17_LastCallWins ==
    /\ [](\A id \in DbMessageIds :
             /\ Cardinality({r \in dbMessages : r.id = id}) <= 1
             /\ (\E i \in DOMAIN dbCalls : dbCalls[i].message.id = id)
                   => RowOf(LastCallWith(id).sessionId, LastCallWith(id).message)
                         \in dbMessages)
    /\ [](dbCalls # <<>>
             => \A r \in dbSessions :
                   r.id = dbCalls[Len(dbCalls)].sessionId
                      => r.updated_at = dbCalls[Len(dbCalls)].updatedAt)
    /\ [][(/\ Len(dbCalls') = Len(dbCalls) + 1
           /\ \E i \in DOMAIN dbCalls :
                 /\ dbCalls[i].message = dbCalls'[Len(dbCalls')].message
                 /\ dbCalls[i].sessionId = dbCalls'[Len(dbCalls')].sessionId
                 /\ dbCalls[i] = LastCallWith(dbCalls[i].message.id))
              => dbMessages' = dbMessages]_vars

\* ------------------------------------- db.deleteSession beside db.saveMessage

\* what the steps of the two db functions leave alone
DbFrame ==
    /\ UNCHANGED <<currentSessionId, sessions, messages, view, inputText, isTyping,
                   nextUuid, nextSession, send, received, nSends>>
    /\ UNCHANGED <<voiceVars, playVars, capturedSessionId, owner, turnVars, logoVars,
                   catalogVars, leadVars, callButDb, startupVars>>

\* db.deleteSession(id) is called: its delete on messages is on its way
DeleteSession(id) ==
    /\ del.pc \in {"idle", "done", "threw"}
    /\ del.calls + save.calls < MaxDbCalls
    /\ del' = [pc |-> "messages", id |-> id, calls |-> del.calls + 1]
    /\ UNCHANGED <<dbSessions, dbMessages, now, save>>
    /\ DbFrame

\* .from('messages').delete().eq('session_id', id) settles; `if (mError) throw`
DeleteMessages(mError) ==
    /\ del.pc = "messages"
    /\ IF mError
       THEN /\ del' = [del EXCEPT !.pc = "threw"]
            /\ UNCHANGED dbMessages
       ELSE /\ del' = [del EXCEPT !.pc = "sessions"]
            /\ dbMessages' = {r \in dbMessages : r.session_id # del.id}
    /\ UNCHANGED <<dbSessions, now, save>>
    /\ DbFrame

\* .from('sessions').delete().eq('id', id) settles; `if (sError) throw`
DeleteSessionRow(sError) ==
    /\ del.pc = "sessions"
    /\ IF sError
       THEN /\ del' = [del EXCEPT !.pc = "threw"]
            /\ UNCHANGED dbSessions
       ELSE /\ del' = [del EXCEPT !.pc = "done"]
            /\ dbSessions' = {r \in dbSessions : r.id # del.id}
    /\ UNCHANGED <<dbMessages, now, save>>
    /\ DbFrame

\* db.saveMessage(sessionId, message) is called, for a session that has its row:
\* its upsert is on its way
SaveMessageCalled(sessionId, message) ==
    /\ save.pc = "idle"
    /\ del.calls + save.calls < MaxDbCalls
    /\ \E r \in dbSessions : r.id = sessionId
    /\ save' = [pc |-> "upsert", sessionId |-> sessionId, message |-> message,
                calls |-> save.calls + 1]
    /\ UNCHANGED <<dbSessions, dbMessages, now, del>>
    /\ DbFrame

\* the upsert of db.saveMessage settles; its error is only logged
SaveMessageUpsert(mError) ==
    /\ save.pc = "upsert"
    /\ dbMessages' = saveMessageRows(save.sessionId, save.message, mError)
    /\ save' = [save EXCEPT !.pc = "update"]
    /\ UNCHANGED <<dbSessions, now, del>>
    /\ DbFrame

\* the update of the session's updated_at settles
SaveMessageUpdate ==
    /\ save.pc = "update"
    /\ dbSessions' = saveMessageSessions(save.sessionId, now)
    /\ now' = now + 1
    /\ save' = [save EXCEPT !.pc = "idle"]
    /\ UNCHANGED <<dbMessages, del>>
    /\ DbFrame

NextDelete ==
    \/ DeleteSession(1)
    \/ \E mError \in BOOLEAN : DeleteMessages(mError)
    \/ \E sError \in BOOLEAN : DeleteSessionRow(sError)
    \/ \E id \in DbMessageIds, content \in DbContents :
          SaveMessageCalled(1, [id |-> id, role |-> content.role, text |-> content.text,
                                timestamp |-> now])
    \/ \E mError \in BOOLEAN : SaveMessageUpsert(mError)
    \/ SaveMessageUpdate

\* The database holds session 1 and no messages.
SpecDelete == InitText /\ [][NextDelete]_vars

\* ----------------------------------------------------- claims on SpecDelete

\* C26: every row of the messages table carries the id of a row of the sessions
\* table, whatever the order of the steps of db.deleteSession and db.saveMessage.
C26_NoOrphanMessage ==
    \A r \in dbMessages : \E q \in dbSessions : q.id = r.session_id

\* ------------------------------------------------------------- start-up

\* the error of a query's result: none, or a message and a code
NoError == [message |-> <<>>, code |-> "none"]

DbErrors ==
    {NoError,
     [message |-> <<"relation", "does not exist">>, code |-> "42P01"],
     [message |-> <<"table", "schema cache">>, code |-> "PGRST205"],
     [message |-> <<"no rows">>, code |-> "PGRST116"],
     [message |-> <<>>, code |-> "42P01"],
     [message |-> <<"permission denied">>, code |-> "42501"],
     [message |-> <<"fetch", "failed">>, code |-> ""]}

\* db.isTableMissingError looking at the message only
isTableMissingErrorByMessage(error) ==
    IF error = NoError THEN FALSE
    ELSE \/ includes(error.message, <<"schema cache">>)
         \/ includes(error.message, <<"does not exist">>)

\* db.isTableMissingError
isTableMissingError(error) ==
    IF error = NoError THEN FALSE
    ELSE \/ includes(error.message, <<"schema cache">>)
         \/ includes(error.message, <<"does not exist">>)
         \/ error.code = "42P01"
         \/ error.code = "PGRST116"

\* .order('updated_at', { ascending: false })
RECURSIVE OrderByUpdatedAtDescending(_)
OrderByUpdatedAtDescending(rows) ==
    IF rows = {} THEN <<>>
    ELSE LET first == CHOOSE r \in rows : \A q \in rows : r.updated_at >= q.updated_at
         IN  <<first>> \o OrderByUpdatedAtDescending(rows \ {first})

\* db.getAllSessions, when the table is there: the session ids, or [] on an error
getAllSessions(error) ==
    IF error # NoError THEN <<>>
    ELSE LET rows == OrderByUpdatedAtDescending(dbSessions)
         IN  [i \in 1..Len(rows) |-> rows[i].id]

\* db.getProperties, when the table is there
getProperties(error) == IF error # NoError THEN <<>> ELSE dbProperties

\* db.getBranding
getBranding(key, failed) == IF failed THEN NoValue ELSE dbBranding[key]

\* db.init, whose probe query returned error: how its promise settles
dbInit(error) ==
    IF error # NoError /\ isTableMissingError(error)
    THEN "TABLES_NOT_FOUND"
    ELSE "resolved"

\* the init effect: db.init() settles; refreshData starts, or the catch block runs
StartupDbInit(error) ==
    /\ startup.pc = "init"
    /\ IF dbInit(error) = "TABLES_NOT_FOUND"
       THEN /\ dbSetupRequired' = TRUE
            /\ startup' = [startup EXCEPT !.pc = "failed", !.missing = TRUE,
                                          !.init = dbInit(error), !.probe = error]
            /\ UNCHANGED isSyncing
       ELSE /\ isSyncing' = TRUE
            /\ startup' = [startup EXCEPT !.pc = "refresh",
                                          !.init = dbInit(error), !.probe = error]
            /\ UNCHANGED dbSetupRequired
    /\ UNCHANGED dbProperties
    /\ UNCHANGED <<voiceVars, playVars, textVars, capturedSessionId, owner, turnVars,
                   logoVars, catalogVars, leadVars, callVars>>

\* refreshData: Promise.all of db.getAllSessions and db.getProperties settles.
\* selectSession and createNewSession are called and not awaited.
StartupRefreshLoaded(sessionsError, propertiesError) ==
    /\ startup.pc = "refresh"
    /\ isSyncing' = FALSE
    /\ IF isTableMissingError(sessionsError) \/ isTableMissingError(propertiesError)
       THEN /\ errorMessage' = "Data synchronization failed."
            /\ startup' = [startup EXCEPT !.pc = "branding", !.missing = TRUE]
            /\ UNCHANGED <<sessions, properties>>
       ELSE LET loadedSessions == getAllSessions(sessionsError)
            IN  /\ sessions' = loadedSessions
                /\ properties' = getProperties(propertiesError)
                /\ startup' = [startup EXCEPT
                                  !.pc = "branding",
                                  !.loaded = sessionsError = NoError
                                                /\ propertiesError = NoError,
                                  !.select = IF Len(loadedSessions) > 0
                                                /\ currentSessionId = Null
                                             THEN loadedSessions[1] ELSE Null,
                                  !.create = Len(loadedSessions) = 0]
                /\ UNCHANGED errorMessage
    /\ UNCHANGED <<dbSetupRequired, dbProperties>>
    /\ UNCHANGED <<currentSessionId, messages, view, inputText, isTyping, dbSessions,
                   dbMessages, now, nextUuid, nextSession, send, received, nSends>>
    /\ UNCHANGED <<searchQuery, typeFilter, cityFilter>>
    /\ UNCHANGED <<voiceButError, playVars, capturedSessionId, owner, turnVars, logoVars,
                   leadVars, callVars>>

\* selectSession: db.getSession settles, with the session or with undefined
StartupSelectSession(sessionError) ==
    /\ startup.select # Null
    /\ startup' = [startup EXCEPT !.select = Null]
    /\ IF sessionError \/ ~\E r \in dbSessions : r.id = startup.select
       THEN UNCHANGED <<currentSessionId, messages, view>>
       ELSE /\ currentSessionId' = startup.select
            /\ messages' = getSessionMessages(startup.select)
            /\ view' = "chat"
    /\ UNCHANGED <<dbSetupRequired, isSyncing, dbProperties>>
    /\ UNCHANGED <<sessions, inputText, isTyping, dbSessions, dbMessages, now, nextUuid,
                   nextSession, send, received, nSends>>
    /\ UNCHANGED <<voiceVars, playVars, capturedSessionId, owner, turnVars, logoVars,
                   catalogVars, leadVars, callVars>>

\* createNewSession, called by refreshData: db.saveSession settles
StartupCreateNewSession(ok) ==
    /\ startup.create
    /\ nextSession < MaxSessions
    /\ startup' = [startup EXCEPT !.create = FALSE]
    /\ createNewSession(ok)
    /\ UNCHANGED <<dbSetupRequired, isSyncing, dbProperties>>
    /\ UNCHANGED <<voiceButError, playVars, capturedSessionId, owner, turnVars, logoVars,
                   catalogVars, leadVars, callVars>>

\* the init effect: Promise.all of the two db.getBranding settles
StartupBrandingLoaded(logoFailed, iconFailed) ==
    /\ startup.pc = "branding"
    /\ startup' = [startup EXCEPT !.pc = "done"]
    /\ projectLogo' = IF getBranding("project_logo", logoFailed) # NoValue
                      THEN getBranding("project_logo", logoFailed) ELSE projectLogo
    /\ appIcon' = IF getBranding("app_icon", iconFailed) # NoValue
                  THEN getBranding("app_icon", iconFailed) ELSE appIcon
    /\ UNCHANGED <<isUpdatingLogo, dbBranding, logoOps, nLogoOps>>
    /\ UNCHANGED <<dbSetupRequired, isSyncing, dbProperties>>
    /\ UNCHANGED <<voiceVars, playVars, textVars, capturedSessionId, owner, turnVars,
                   catalogVars, leadVars, callVars>>

\* The app as it is mounted, on a database that holds up to MaxSessions - 1
\* sessions, a conversation in session 1, some properties and maybe a logo.
InitStartup ==
    /\ InitVoice
    /\ InitPlay
    /\ InitTurn
    /\ InitCatalog
    /\ InitLead
    /\ InitCalls
    /\ capturedSessionId = [c \in Calls |-> Null]
    /\ currentSessionId = Null
    /\ sessions = <<>>
    /\ messages = <<>>
    /\ view = "properties"
    /\ inputText = <<>>
    /\ isTyping = FALSE
    /\ send = SendIdle
    /\ received = <<>>
    /\ nSends = 0
    /\ \E k \in 0..(MaxSessions - 1) :
          /\ dbSessions = {[id |-> i, updated_at |-> 3 + i] : i \in 1..k}
          /\ dbMessages = IF k = 0 THEN {}
                          ELSE {RowOf(1, Conversation(2)[i]) : i \in 1..2}
          /\ nextSession = k
          /\ nextUuid = IF k = 0 THEN 0 ELSE 2
          /\ now = IF k = 0 THEN 1 ELSE 4 + k
    /\ appIcon = FALLBACK_ICON_URL
    /\ projectLogo = FALLBACK_ICON_URL
    /\ isUpdatingLogo = FALSE
    /\ dbBranding \in {[key \in BrandingKeys |-> NoValue],
                        [key \in BrandingKeys |-> <<"u">>]}
    /\ logoOps = [h \in 1..MaxLogoOps |-> NoLogoOp]
    /\ nLogoOps = 0
    /\ dbSetupRequired = FALSE
    /\ isSyncing = FALSE
    /\ startup = StartupIdle
    /\ dbProperties \in PropertyLists

NextStartup ==
    \/ \E error \in DbErrors : StartupDbInit(error)
    \/ \E sessionsError \in DbErrors, propertiesError \in DbErrors :
          StartupRefreshLoaded(sessionsError, propertiesError)
    \/ \E sessionError \in BOOLEAN : StartupSelectSession(sessionError)
    \/ \E ok \in BOOLEAN : StartupCreateNewSession(ok)
    \/ \E logoFailed \in BOOLEAN, iconFailed \in BOOLEAN :
          StartupBrandingLoaded(logoFailed, iconFailed)

SpecStartup == InitStartup /\ [][NextStartup]_vars

\* every promise of the start-up settles
SpecStartupFair == SpecStartup /\ WF_vars(NextStartup)

\* --------------------------------------------------- claims on SpecStartup

\* C18: once db.init, db.getAllSessions or db.getProperties has reported a
\* missing table, dbSetupRequired is true (the overlay is rendered from it).
C18_MissingTableShowsSetup == startup.missing => dbSetupRequired

\* --------------------------------------------- sendMessageStream: the history

\* `m.text || "..."`: the text given to the provider for a message
Ellipsis == <<"...">>

partText(text) == IF text = <<>> THEN Ellipsis ELSE text

\* `m.role === Role.USER ? 'user' : 'model'`
providerRole(m) == IF m.role = USER THEN "user" ELSE "model"

\* the entry pushed for message m
historyEntry(m) == [role |-> providerRole(m), parts |-> <<[text |-> partText(m.text)]>>]

\* the loop over history from its i-th message on, with lastRole and the
\* entries pushed so far
RECURSIVE historyLoop(_, _, _, _)
historyLoop(h, i, lastRole, pushed) ==
    IF i > Len(h)
    THEN pushed
    ELSE IF providerRole(h[i]) # lastRole
         THEN historyLoop(h, i + 1, providerRole(h[i]), Append(pushed, historyEntry(h[i])))
         ELSE historyLoop(h, i + 1, lastRole, pushed)

\* geminiHistory with an entry pushed for every message
geminiHistoryOfEveryMessage(h) == [i \in DOMAIN h |-> historyEntry(h[i])]

\* geminiHistory as sendMessageStream builds it from its history argument;
\* lastRole starts as null
geminiHistory(h) == historyLoop(h, 1, "null", <<>>)

\* sendMessageStream up to ai.chats.create
SendMessageStream ==
    /\ ~chat.created
    /\ chat' = [created |-> TRUE, history |-> geminiHistory(history)]
    /\ UNCHANGED <<voiceVars, playVars, textVars, capturedSessionId, owner, turnVars,
                   logoVars, catalogVars, leadVars, callButChat, startupVars>>

\* the message lists of at most MaxHistory messages, with empty and non-empty texts
HistoryTexts == {<<>>, <<"a">>}

HistoryMessages(n) ==
    {[i \in 1..n |-> [id |-> i, role |-> f[i][1], text |-> f[i][2], timestamp |-> i]] :
        f \in [1..n -> {USER, MODEL} \X HistoryTexts]}

Histories == UNION {HistoryMessages(n) : n \in 0..MaxHistory}

InitHistory ==
    /\ InitVoice
    /\ InitPlay
    /\ InitChat
    /\ InitTurn
    /\ InitLogo
    /\ InitCatalog
    /\ InitLead
    /\ InitStarted
    /\ capturedSessionId = [c \in Calls |-> Null]
    /\ dbCalls = <<>>
    /\ history \in Histories
    /\ chat = NoChat
    /\ del = DelIdle
    /\ save = SaveIdle

NextHistory == SendMessageStream

SpecHistory == InitHistory /\ [][NextHistory]_vars

\* --------------------------------------------------- claims on SpecHistory

\* the positions of history at which a maximal run of same-role messages starts
RunStarts(h) == {i \in DOMAIN h : i = 1 \/ h[i].role # h[i - 1].role}

\* the k-th smallest element of a set of positions
RECURSIVE Nth(_, _)
Nth(S, k) ==
    LET least == CHOOSE i \in S : \A j \in S : i <= j
    IN  IF k = 1 THEN least ELSE Nth(S \ {least}, k - 1)

\* C22: the history given to the provider has one entry per maximal run of
\* same-role messages, made from the first message of the run: its role, and its
\* text or "..." when the text is empty; no two consecutive entries have the
\* same role.
C22_HistoryAlternates ==
    chat.created =>
        /\ Len(chat.history) = Cardinality(RunStarts(history))
        /\ \A k \in DOMAIN chat.history :
              LET m == history[Nth(RunStarts(history), k)]
              IN  /\ chat.history[k].role = m.role
                  /\ chat.history[k].parts =
                        <<[text |-> IF m.text = <<>> THEN <<"...">> ELSE m.text]>>
        /\ \A k \in DOMAIN chat.history :
              k > 1 => chat.history[k].role # chat.history[k - 1].role

\* C22 witness: a history of three messages in two runs, the second run starting
\* with an empty text, gave two entries, the second with the text "...".
C22_Witness ==
    /\ chat.created
    /\ Len(history) = 3
    /\ history[1].role = history[2].role
    /\ history[3].text = <<>>
    /\ Len(chat.history) = 2
    /\ chat.history[2].parts[1].text = <<"...">>

\* C23: once db.init has resolved and refreshData has loaded the sessions and
\* the properties without an error, currentSessionId eventually is not null.
C23_SessionEventuallyCurrent == startup.loaded ~> currentSessionId # Null

\* the message tokens and the codes that mean a missing table
MissingTableTexts == {"schema cache", "does not exist"}
MissingTableCodes == {"42P01", "PGRST116"}

\* C24: db.init rejects with TABLES_NOT_FOUND exactly when its probe returned an
\* error whose message contains "schema cache" or "does not exist" or whose code
\* is 42P01 or PGRST116; on any other error, and on none, it resolves.
C24_InitRejectsOnMissingTable ==
    startup.init # "pending" =>
        /\ startup.init \in {"TABLES_NOT_FOUND", "resolved"}
        /\ startup.init = "TABLES_NOT_FOUND" <=>
              /\ startup.probe # NoError
              /\ \/ \E i \in DOMAIN startup.probe.message :
                        startup.probe.message[i] \in MissingTableTexts
                 \/ startup.probe.code \in MissingTableCodes

\* C24 witness: db.init rejected on an error that only its code classifies.
C24_Witness ==
    /\ startup.init = "TABLES_NOT_FOUND"
    /\ startup.probe.code = "PGRST116"
    /\ startup.probe.message = <<"no rows">>

====
